---- MODULE Spec2Model ----
(***************************************************************************)
(* sveltekit-rate-limiter: the plugin chain evaluator (RateLimiter), its   *)
(* counting store (TTLStore over a TTL cache with noUpdateTTL), the       *)
(* built-in identity plugins (IP, IP + User-Agent, cookie) and the         *)
(* RetryAfterRateLimiter with its RetryAfterStore.                         *)
(*                                                                         *)
(* Time is in milliseconds.  JavaScript values that a plugin or a callback *)
(* may return are tagged records (string / boolean / null / undefined).    *)
(* An optional option (one that may be left out) is a sequence of length 0 *)
(* or 1.  JavaScript indexes from 0: slot i of the code is plugins[i + 1]. *)
(***************************************************************************)
EXTENDS Integers, Sequences, FiniteSets, TLC

VARIABLES
  options,   \* the RateLimiterOptions the limiter was constructed with
  status,    \* "ready", or "threw" when the constructor threw
  plugins,   \* RateLimiter.plugins: the sorted slots [rate, limiter]
  cache,     \* TTLStore.cache: key -> [value, expires]
  cookie,    \* the client's cookie for the cookie limiter (chunks; <<>> = no cookie)
  ids,       \* number of identifiers nanoid() has generated
  preflighted, \* history: the client holds the cookie a preflight call gave it
  retryAfter,  \* RetryAfterRateLimiter.retryAfter: the RetryAfterStore's cache
  fresh,     \* history: a limiter constructed when clear() was last called
             \* and given the same calls since
  now,       \* the clock, in milliseconds
  hits,      \* history: per counter key, the hits of its latest window
  last,      \* history: the last operation, its inputs and its outcome
  calls,     \* the isLimited calls in flight, each where its await left it
  frames     \* the call stack of the cookie limiter, innermost call last

vars ==
  <<options, status, plugins, cache, cookie, ids, preflighted, retryAfter,
    fresh, now, hits, last, calls, frames>>

----------------------------------------------------------------------------
(* Bounds *)

MaxTime == 1500      \* the clock stops here
MaxHits == 3         \* hits the history holds, all keys together
MaxIds == 2          \* identifiers nanoid() may generate per behaviour
MaxCalls == 3        \* isLimited calls in flight at once
MaxDepth == 6        \* frames the call stack holds
MaxSlots == 11       \* slots of the limiters whose keys are compared
TickMs == 500        \* granularity of the clock

----------------------------------------------------------------------------
(* JavaScript values *)

None == <<>>
Some(x) == <<x>>

Str(s) == [t |-> "string", v |-> s]
JTrue == [t |-> "boolean", v |-> "true"]
JFalse == [t |-> "boolean", v |-> "false"]
JNull == [t |-> "null", v |-> "null"]
JUndefined == [t |-> "undefined", v |-> "undefined"]

\* !x for the values above
Falsy(x) == x = JFalse \/ x = JNull \/ x = JUndefined \/ x = Str("")

----------------------------------------------------------------------------
(* rate.ts *)

RateUnits ==
  {"ms", "100ms", "250ms", "500ms", "s", "2s", "5s", "10s", "15s", "30s",
   "45s", "m", "2m", "5m", "10m", "15m", "30m", "45m", "h", "2h", "6h",
   "12h", "d"}

TTLTime(unit) ==
  CASE unit = "s" -> 1000
    [] unit = "m" -> 60000
    [] unit = "h" -> 60 * 60000
    [] unit = "2s" -> 2000
    [] unit = "5s" -> 5000
    [] unit = "10s" -> 10000
    [] unit = "15s" -> 15000
    [] unit = "30s" -> 30000
    [] unit = "45s" -> 45000
    [] unit = "2m" -> 2 * 60000
    [] unit = "5m" -> 5 * 60000
    [] unit = "10m" -> 10 * 60000
    [] unit = "15m" -> 15 * 60000
    [] unit = "30m" -> 30 * 60000
    [] unit = "45m" -> 45 * 60000
    [] unit = "100ms" -> 100
    [] unit = "250ms" -> 250
    [] unit = "500ms" -> 500
    [] unit = "2h" -> 2 * 60 * 60000
    [] unit = "6h" -> 6 * 60 * 60000
    [] unit = "12h" -> 12 * 60 * 60000
    [] unit = "d" -> 24 * 60 * 60000
    [] unit = "ms" -> 1

----------------------------------------------------------------------------
(* hashFunction.ts: SHA-256 as a collision-free digest that is not the      *)
(* identity; the digest of s is written sha256(s).                         *)

hashFunction(input) == "sha256(" \o input \o ")"

----------------------------------------------------------------------------
(* RateLimiter.constructor *)

\* A plugin's rate: one Rate <<limit, unit>> (kept in r[1]) or an array r of
\* Rates.
OneRate(limit, unit) == [isArray |-> FALSE, r |-> <<(<<limit, unit>>)>>]
RateArray(rs) == [isArray |-> TRUE, r |-> rs]

\* limiter.rate.length: a Rate is itself an array of two elements
RateLength(rate) == IF rate.isArray THEN Len(rate.r) ELSE 2

\* The limiter objects.  A custom plugin is known by its position in
\* options.plugins.
IPRateLimiter(rate) == [class |-> "IPRateLimiter", rate |-> rate, n |-> 0]
IPUserAgentRateLimiter(rate) ==
  [class |-> "IPUserAgentRateLimiter", rate |-> rate, n |-> 0]
CookieRateLimiter(rate) ==
  [class |-> "CookieRateLimiter", rate |-> rate, n |-> 0]
CustomPlugin(rate, n) == [class |-> "plugin", rate |-> rate, n |-> n]

\* mutant: only the first rate of a list gives a slot
MapPluginRates_FirstRate(limiter) ==
  IF RateLength(limiter.rate) = 0
    THEN [threw |-> TRUE, slots |-> <<>>]
    ELSE [threw |-> FALSE,
          slots |-> <<[rate |-> <<limiter.rate.r[1][1],
                                  TTLTime(limiter.rate.r[1][2])>>,
                       limiter |-> limiter]>>]

\* mutant: an empty rate list is not refused and gives no slot
MapPluginRates_NoCheck(limiter) ==
  LET pluginRates ==
        IF limiter.rate.isArray THEN limiter.rate.r ELSE <<limiter.rate.r[1]>>
  IN  [threw |-> FALSE,
       slots |-> [k \in 1..Len(pluginRates) |->
                    [rate |-> <<pluginRates[k][1], TTLTime(pluginRates[k][2])>>,
                     limiter |-> limiter]]]

\* mapPluginRates: the slots of one limiter, or "threw" for an empty rate
MapPluginRates(limiter) ==
  IF RateLength(limiter.rate) = 0
    THEN [threw |-> TRUE, slots |-> <<>>]
    ELSE LET pluginRates ==
               IF limiter.rate.isArray THEN limiter.rate.r
               ELSE <<limiter.rate.r[1]>>
         IN  [threw |-> FALSE,
              slots |-> [k \in 1..Len(pluginRates) |->
                           [rate |-> <<pluginRates[k][1],
                                       TTLTime(pluginRates[k][2])>>,
                            limiter |-> limiter]]]

\* mutant: slots of equal window are not ordered by limit
ComparePlugins_NoTieBreak(a, b) == a.rate[2] - b.rate[2]

\* the comparator of this.plugins.sort
ComparePlugins(a, b) ==
  LET diff == a.rate[2] - b.rate[2]
  IN  IF diff = 0 THEN a.rate[1] - b.rate[1] ELSE diff

\* Array.prototype.sort is stable: x goes after every element that does not
\* compare greater than it.
RECURSIVE InsertSorted(_, _)
InsertSorted(sorted, x) ==
  IF sorted = <<>> THEN <<x>>
  ELSE IF ComparePlugins(Head(sorted), x) <= 0
    THEN <<Head(sorted)>> \o InsertSorted(Tail(sorted), x)
    ELSE <<x>> \o sorted

RECURSIVE SortPlugins(_)
SortPlugins(list) ==
  IF list = <<>> THEN <<>>
  ELSE InsertSorted(SortPlugins(SubSeq(list, 1, Len(list) - 1)),
                    list[Len(list)])

\* (options.plugins ?? []).flatMap(mapPluginRates)
RECURSIVE FlatMapPlugins(_, _)
FlatMapPlugins(ps, n) ==
  IF n > Len(ps) THEN [threw |-> FALSE, slots |-> <<>>]
  ELSE LET m == MapPluginRates(CustomPlugin(ps[n].rate, n))
           rest == FlatMapPlugins(ps, n + 1)
       IN  IF m.threw THEN m
           ELSE IF rest.threw THEN rest
           ELSE [threw |-> FALSE, slots |-> m.slots \o rest.slots]

\* options.X ?? options.rates?.X
Coalesce(a, b) == IF a # None THEN a ELSE b

\* The built-in limiters the options ask for, in the order the constructor
\* adds them.
BuiltIns(o) ==
  LET IPRates == Coalesce(o.IP, o.rates.IP)
      IPUARates == Coalesce(o.IPUA, o.rates.IPUA)
      cookieRates == Coalesce(o.cookie, o.rates.cookie)
  IN  (IF IPRates # None THEN <<IPRateLimiter(IPRates[1])>> ELSE <<>>)
      \o (IF IPUARates # None THEN <<IPUserAgentRateLimiter(IPUARates[1])>>
          ELSE <<>>)
      \o (IF cookieRates # None THEN <<CookieRateLimiter(cookieRates[1].rate)>>
          ELSE <<>>)

RECURSIVE ConcatBuiltIns(_, _)
ConcatBuiltIns(acc, limiters) ==
  IF limiters = <<>> THEN acc
  ELSE LET m == MapPluginRates(Head(limiters))
       IN  IF acc.threw THEN acc
           ELSE IF m.threw THEN m
           ELSE ConcatBuiltIns([threw |-> FALSE, slots |-> acc.slots \o m.slots],
                               Tail(limiters))

\* The constructor: the sorted slots, or "threw".
Constructor(o) ==
  LET all == ConcatBuiltIns(FlatMapPlugins(o.plugins, 1), BuiltIns(o))
  IN  IF all.threw THEN [status |-> "threw", plugins |-> <<>>]
      ELSE IF Len(all.slots) = 0 THEN [status |-> "threw", plugins |-> <<>>]
      ELSE [status |-> "ready", plugins |-> SortPlugins(all.slots)]

\* mutant: the constructor reorders the array the caller gave
GivenPlugins_Reordered(o) ==
  [k \in 1..Len(o.plugins) |-> o.plugins[Len(o.plugins) + 1 - k]]

\* options.plugins after the constructor: flatMap and concat make new arrays
\* and sort orders the new array, the caller's is left as it was
GivenPlugins(o) == o.plugins

----------------------------------------------------------------------------
(* TTLStore, over a TTL cache created with noUpdateTTL: true *)

\* mutant: every write restarts the entry's time to live
CacheSet_UpdateTTL(c, key, value, ttl, t) ==
  [k \in DOMAIN c \cup {key} |->
     IF k = key THEN [value |-> value, expires |-> t + ttl] ELSE c[k]]

\* TTLCache.set(key, value, {ttl}) at time t: a key the cache holds keeps its
\* expiry (noUpdateTTL), a new key expires ttl after t.
CacheSet(c, key, value, ttl, t) ==
  IF key \in DOMAIN c
    THEN [c EXCEPT ![key].value = value]
    ELSE [k \in DOMAIN c \cup {key} |->
            IF k = key THEN [value |-> value, expires |-> t + ttl] ELSE c[k]]

\* mutant: a hit counts double
TTLStoreAdd_Twice(c, hash, ttl, t) ==
  LET currentRate == IF hash \in DOMAIN c THEN c[hash].value ELSE 0
  IN  [ret |-> currentRate + 2,
       cache |-> CacheSet(c, hash, currentRate + 2, ttl, t)]

\* mutant: the new count is returned but not written
TTLStoreAdd_NotStored(c, hash, ttl, t) ==
  [ret |-> (IF hash \in DOMAIN c THEN c[hash].value ELSE 0) + 1, cache |-> c]

\* mutant: the count before the hit is returned
TTLStoreAdd_ReturnsOld(c, hash, ttl, t) ==
  LET currentRate == IF hash \in DOMAIN c THEN c[hash].value ELSE 0
  IN  [ret |-> currentRate,
       cache |-> CacheSet(c, hash, currentRate + 1, ttl, t)]

\* TTLStore.add(hash, ttl): the new count and the cache
TTLStoreAdd(c, hash, ttl, t) ==
  LET currentRate == IF hash \in DOMAIN c THEN c[hash].value ELSE 0
  IN  [ret |-> currentRate + 1,
       cache |-> CacheSet(c, hash, currentRate + 1, ttl, t)]

\* mutant: an entry outlives its expiry by an instant
PurgeStale_Late(c, t) ==
  [k \in {x \in DOMAIN c : c[x].expires >= t} |-> c[k]]

\* The cache's timer: at time t the entries whose expiry has come are gone.
PurgeStale(c, t) ==
  [k \in {x \in DOMAIN c : c[x].expires > t} |-> c[k]]

EmptyCache == [k \in {} |-> 0]

----------------------------------------------------------------------------
(* The identity plugins *)

\* An event: the client address, the User-Agent header (None when absent),
\* what each custom plugin answers for this request, and what onLimited
\* answers if it is called (status).  The cookie jar and nanoid's counter
\* travel in env.

IPHash(req) == Str(req.ip)

IPUAHash(req) ==
  IF req.ua = None \/ req.ua = Some("") THEN JFalse
  ELSE Str(req.ip \o req.ua[1])

\* A cookie value is a string cut in chunks, the separator ";" being a chunk
\* of its own.  cookie.split(';')
RECURSIVE Split(_)
Split(chunks) ==
  IF chunks = <<>> THEN <<"">>
  ELSE LET init == Split(SubSeq(chunks, 1, Len(chunks) - 1))
           c == chunks[Len(chunks)]
       IN  IF c = ";" THEN Append(init, "")
           ELSE [init EXCEPT ![Len(init)] = @ \o c]

\* the options of the cookie limiter
CookieOptions == Coalesce(options.cookie, options.rates.cookie)[1]

\* mutant: nanoid() generates the same identifier again
Nanoid_Same(n) == "id1"

\* nanoid(): the n-th identifier it generates
Nanoid(n) == "id" \o ToString(n)

\* CookieRateLimiter.setPreflightCookie
SetPreflightCookie(env) ==
  LET userId == Nanoid(env.ids + 1)
  IN  [id |-> Str(userId),
       env |-> [env EXCEPT
                  !.ids = @ + 1,
                  !.cookie = <<userId, ";",
                               hashFunction(CookieOptions.secret \o userId)>>]]

\* CookieRateLimiter.userIdFromCookie and CookieRateLimiter.preflight call
\* each other; the arguments are the cookie read from the event (data) and the
\* entry point.
RECURSIVE CookieUserId(_, _, _)

\* mutant: preflight issues a new cookie whatever the request carries
PreflightOf_AlwaysNew(data, env) == SetPreflightCookie(env)

\* CookieRateLimiter.preflight, data being event.cookies.get(this.cookieId)
PreflightOf(data, env) ==
  IF data # <<>> /\ data # <<"">>
    THEN LET u == CookieUserId("userIdFromCookie", data, env)
         IN  IF ~Falsy(u.id) THEN u
             ELSE SetPreflightCookie(u.env)
    ELSE SetPreflightCookie(env)

\* mutant: a request without cookie is given one, preflight required or not
OnNoCookie_Issue(env) == CookieUserId("preflight", env.cookie, env)

\* if (!cookie) return this.requirePreflight ? null : this.preflight(event)
OnNoCookie(env) ==
  IF CookieOptions.preflight THEN [id |-> JNull, env |-> env]
  ELSE CookieUserId("preflight", env.cookie, env)

\* mutant: any signature is taken
SignatureOk_Any(userId, secretHash) == TRUE

\* (await this.hashFunction(this.secret + userId)) != secretHash, negated
SignatureOk(userId, secretHash) ==
  hashFunction(CookieOptions.secret \o userId) = secretHash

CookieUserId(entry, data, env) ==
  IF entry = "preflight" THEN PreflightOf(data, env)
  ELSE IF data = <<>> \/ data = <<"">> THEN OnNoCookie(env)
  ELSE LET parts == Split(data)
           userId == parts[1]
           secretHash == IF Len(parts) >= 2 THEN parts[2] ELSE ""
       IN  IF userId = "" \/ secretHash = ""
             THEN SetPreflightCookie(env)
           ELSE IF ~SignatureOk(userId, secretHash)
             THEN SetPreflightCookie(env)
           ELSE [id |-> Str(userId), env |-> env]

\* CookieRateLimiter.hash
CookieHash(env) ==
  LET currentId == CookieUserId("userIdFromCookie", env.cookie, env)
  IN  [id |-> IF ~Falsy(currentId.id) THEN currentId.id ELSE JFalse,
       env |-> currentId.env]

\* plugin.limiter.hash(event, extraData)
PluginHash(limiter, req, env) ==
  CASE limiter.class = "IPRateLimiter" -> [id |-> IPHash(req), env |-> env]
    [] limiter.class = "IPUserAgentRateLimiter" ->
         [id |-> IPUAHash(req), env |-> env]
    [] limiter.class = "CookieRateLimiter" -> CookieHash(env)
    [] limiter.class = "plugin" -> [id |-> req.custom[limiter.n], env |-> env]

----------------------------------------------------------------------------
(* RateLimiter._isLimited *)

\* RateLimiter.limitReason; a custom plugin is reported by its slot index
\* mutant: a custom plugin is named by its place in options.plugins
LimitReason_ConfigIndex(limiter, index) ==
  CASE limiter.class = "IPRateLimiter" -> "IP"
    [] limiter.class = "IPUserAgentRateLimiter" -> "IPUA"
    [] limiter.class = "CookieRateLimiter" -> "cookie"
    [] OTHER -> ToString(limiter.n - 1)

LimitReason(limiter, index) ==
  CASE limiter.class = "IPRateLimiter" -> "IP"
    [] limiter.class = "IPUserAgentRateLimiter" -> "IPUA"
    [] limiter.class = "CookieRateLimiter" -> "cookie"
    [] OTHER -> ToString(index)

\* What _isLimited returns (threw: it threw instead), with the state it
\* leaves (env) and the trace of the run: the slots whose hash was called
\* (evaluated: what each answered; order: the index i of each), the reasons
\* onLimited was
\* called with, the keys passed to store.add with their slots and tokens
\* (adds).
Returned(limited, hash, ttl, reason, env) ==
  [threw |-> FALSE, limited |-> limited, hash |-> hash, ttl |-> ttl,
   reason |-> reason, env |-> env]

Thrown(env) ==
  [threw |-> TRUE, limited |-> FALSE, hash |-> None, ttl |-> 0,
   reason |-> None, env |-> env]

\* mutant: the limit itself counts as exceeded
OverLimit_AtLimit(currentRate, rate) == currentRate >= rate[1]

\* currentRate > rate[0]
OverLimit(currentRate, rate) == currentRate > rate[1]

\* this.onLimited is set and answers exactly true
\* mutant: every answer but false overrides the verdict
Overrides_NotFalse(req) == options.onLimited /\ req.status # JFalse
Overrides(req) == options.onLimited /\ req.status = JTrue

OnLimitedCalled(env, reason) ==
  IF options.onLimited THEN [env EXCEPT !.onLimited = Append(@, reason)]
  ELSE env

\* The loop from slot i on, limited being "undefined", "true" or "false".
RECURSIVE IsLimitedFrom(_, _, _, _)

\* mutant: the hit of an overridden call is taken back
Overridden_TakenBack(hash, ttl, env) ==
  Returned(FALSE, hash, ttl, None,
           IF hash = None THEN env
           ELSE [env EXCEPT !.cache[hash[1]].value = @ - 1])

\* if (status === true) return { limited: false, hash, ttl: rate[1] }
Overridden(hash, ttl, env) == Returned(FALSE, hash, ttl, None, env)

\* mutant: false is taken as no opinion and the chain goes on
OnFalse_Continue(i, limited, env, req) ==
  IsLimitedFrom(i + 1, "true", env, req)

\* id === false
OnFalse(i, limited, env, req) ==
  LET plugin == plugins[i + 1]
      rate == plugin.rate
      env2 == OnLimitedCalled(env, "rejected")
  IN  IF Overrides(req)
        THEN Overridden(None, rate[2], env2)
        ELSE Returned(TRUE, None, rate[2],
                      Some(LimitReason(plugin.limiter, i)), env2)

\* mutant: a null always leaves the request limited
OnNull_AlwaysLimited(limited) == "true"

\* id === null: if (limited === undefined) limited = true
OnNull(limited) == IF limited = "undefined" THEN "true" ELSE limited

\* mutant: the empty string is counted like any other string
IsEmpty_Never(id) == FALSE

\* !id, for an id that is neither false nor null
IsEmpty(id) == Falsy(id)

\* mutant: true only marks the request as passed and the chain goes on
OnTrue_Continue(i, limited, env, req) ==
  IsLimitedFrom(i + 1, "false", env, req)

\* id === true
OnTrue(i, limited, env, req) ==
  Returned(FALSE, None, plugins[i + 1].rate[2], None, env)

\* i.toString() + digest, the digest being what hashFunction answered
SlotKey(i, digest) == ToString(i) \o digest

\* mutant: the key of a counter leaves out whose it is
CounterKey_NoToken(i, id) == ToString(i)

\* mutant: the key is the digest alone
CounterKey_NoIndex(i, id) == hashFunction(id)

\* i.toString() + (await this.hashFunction(id))
CounterKey(i, id) == SlotKey(i, hashFunction(id))

\* mutant: a count over the limit does not end the chain
OnString_GoesOn(i, id, env, req) ==
  LET hash == CounterKey(i, id.v)
      added == TTLStoreAdd(env.cache, hash, plugins[i + 1].rate[2], now)
  IN  IsLimitedFrom(i + 1, "false",
                    [env EXCEPT !.cache = added.cache,
                                !.adds = Append(@, [hash |-> hash, slot |-> i,
                                                    id |-> id.v,
                                                    currentRate |-> added.ret])],
                    req)

\* a string: count it, and stop when it is over the limit
OnString(i, id, env, req) ==
  LET plugin == plugins[i + 1]
      rate == plugin.rate
      hash == CounterKey(i, id.v)
      added == TTLStoreAdd(env.cache, hash, rate[2], now)
      currentRate == added.ret
      env2 == [env EXCEPT !.cache = added.cache,
                          !.adds = Append(@, [hash |-> hash, slot |-> i,
                                              id |-> id.v,
                                              currentRate |-> currentRate])]
  IN  IF OverLimit(currentRate, rate)
        THEN LET env3 == OnLimitedCalled(env2, "rate")
             IN  IF Overrides(req)
                   THEN Overridden(Some(hash), rate[2], env3)
                   ELSE Returned(TRUE, Some(hash), rate[2],
                                 Some(LimitReason(plugin.limiter, i)), env3)
        ELSE IsLimitedFrom(i + 1, "false", env2, req)

\* mutant: onLimited is told of a chain that gave no verdict
AfterLoop_AsksOnLimited(limited, env) ==
  IF limited = "true"
    THEN Returned(TRUE, None, plugins[Len(plugins)].rate[2],
                  Some(LimitReason(plugins[Len(plugins)].limiter,
                                   Len(plugins) - 1)),
                  OnLimitedCalled(env, "rejected"))
    ELSE Returned(FALSE, None, plugins[Len(plugins)].rate[2], None, env)

\* mutant: a chain that gave no verdict lets the request pass
AfterLoop_FailOpen(limited, env) ==
  Returned(FALSE, None, plugins[Len(plugins)].rate[2], None, env)

\* after the loop
AfterLoop(limited, env) ==
  LET lastSlot == plugins[Len(plugins)]
  IN  IF limited = "true"
        THEN Returned(TRUE, None, lastSlot.rate[2],
                      Some(LimitReason(lastSlot.limiter, Len(plugins) - 1)),
                      env)
        ELSE Returned(FALSE, None, lastSlot.rate[2], None, env)

IsLimitedFrom(i, limited, env, req) ==
  IF i >= Len(plugins) THEN AfterLoop(limited, env)
  ELSE
    LET h == PluginHash(plugins[i + 1].limiter, req, env)
        id == h.id
        env1 == [h.env EXCEPT !.evaluated = Append(@, id),
                              !.order = Append(@, i)]
    IN  IF id = JFalse THEN OnFalse(i, limited, env1, req)
        ELSE IF id = JNull THEN IsLimitedFrom(i + 1, OnNull(limited), env1, req)
        ELSE IF IsEmpty(id) THEN Thrown(env1)
        ELSE IF id = JTrue THEN OnTrue(i, limited, env1, req)
        ELSE OnString(i, id, env1, req)

\* the state a call starts from
Env ==
  [cache |-> cache, cookie |-> cookie, ids |-> ids, evaluated |-> <<>>,
   order |-> <<>>, onLimited |-> <<>>, adds |-> <<>>]

\* RateLimiter._isLimited(event, extraData)
IsLimitedResult(req) == IsLimitedFrom(0, "undefined", Env, req)

\* RateLimiter.check(event, extraData), of the result of _isLimited
RateLimiterCheck(result) ==
  IF ~result.limited THEN [limited |-> FALSE, reason |-> None]
  ELSE [limited |-> TRUE, reason |-> result.reason]

----------------------------------------------------------------------------
(* RetryAfterStore and RetryAfterRateLimiter *)

\* mutant: every add stores a new time
RetryAfterStoreAdd_Refresh(c, hash, ttl, t) ==
  [ret |-> t + ttl, cache |-> CacheSet(c, hash, t + ttl, ttl, t)]

\* RetryAfterStore.add(hash, ttl) at time t: the time stored for the key, or
\* t + ttl, stored for ttl, when the key holds none
RetryAfterStoreAdd(c, hash, ttl, t) ==
  LET currentRate == IF hash \in DOMAIN c THEN c[hash].value ELSE 0
  IN  IF currentRate # 0 THEN [ret |-> currentRate, cache |-> c]
      ELSE [ret |-> t + ttl, cache |-> CacheSet(c, hash, t + ttl, ttl, t)]

\* mutant: a time that has passed gives a negative number of seconds
ToSeconds_NoClamp(rateMs) == rateMs \div 1000

\* RetryAfterRateLimiter.toSeconds
ToSeconds(rateMs) ==
  IF rateMs \div 1000 > 0 THEN rateMs \div 1000 ELSE 0

\* What RetryAfterRateLimiter.check makes of the result of _isLimited, with
\* the retry-delay store it leaves and what this.retryAfter.add answered
\* (added), if it was called.
CheckResult(result, ra, t) ==
  IF result.threw
    THEN [threw |-> TRUE, limited |-> FALSE, retryAfter |-> 0,
          reason |-> None, store |-> ra, added |-> None]
  ELSE IF ~result.limited
    THEN [threw |-> FALSE, limited |-> FALSE, retryAfter |-> 0,
          reason |-> None, store |-> ra, added |-> None]
  ELSE IF result.hash = None
    THEN [threw |-> FALSE, limited |-> TRUE,
          retryAfter |-> ToSeconds(result.ttl),
          reason |-> result.reason, store |-> ra, added |-> None]
  ELSE LET added == RetryAfterStoreAdd(ra, result.hash[1], result.ttl, t)
       IN  [threw |-> FALSE, limited |-> TRUE,
            retryAfter |-> ToSeconds(added.ret - t),
            reason |-> result.reason, store |-> added.cache,
            added |-> Some(added.ret)]

\* mutant: the retry-delay entries outlive clear()
RetryAfterClear_KeepsDelays(c, ra) == [cache |-> EmptyCache, retryAfter |-> ra]

\* RetryAfterRateLimiter.clear: this.retryAfter.clear(), then super.clear()
RetryAfterClear(c, ra) == [cache |-> EmptyCache, retryAfter |-> EmptyCache]

----------------------------------------------------------------------------
(* The options a limiter is constructed with *)

MaxLimit == 2        \* the largest limit of a rate

Limits == 0..MaxLimit
Units == {"500ms", "s"}
Secret == "SECRET"

NoRates == [IP |-> None, IPUA |-> None, cookie |-> None]

Opt(ps, ip, ipua, ck, onl) ==
  [plugins |-> ps, IP |-> ip, IPUA |-> ipua, cookie |-> ck, onLimited |-> onl,
   rates |-> NoRates]

NoOptions == Opt(<<>>, None, None, None, FALSE)

CookieOpt(rate, preflight) ==
  [name |-> "limiter", secret |-> Secret, rate |-> rate,
   preflight |-> preflight]

SingleRates == {OneRate(l, u) : l \in Limits, u \in Units}

\* one limiter, one rate: a custom plugin, IP, or IP + User-Agent
SingleOptions ==
  {Opt(<<[rate |-> r]>>, None, None, None, onl) :
     r \in SingleRates, onl \in BOOLEAN}
  \cup {Opt(<<>>, Some(OneRate(l, "s")), None, None, FALSE) : l \in 1..MaxLimit}
  \cup {Opt(<<>>, None, Some(OneRate(1, "500ms")), None, TRUE)}

ChainRates == {OneRate(1, "500ms"), OneRate(2, "s")}

\* several slots: two custom plugins, or a custom plugin with two rates,
\* alone or next to IP or IP + User-Agent
ChainOptions ==
  {Opt(<<[rate |-> p], [rate |-> q]>>, None, None, None, onl) :
     p \in ChainRates, q \in ChainRates, onl \in BOOLEAN}
  \cup {Opt(<<[rate |-> RateArray(<<(<<1, "500ms">>), (<<2, "s">>)>>)]>>,
             Some(OneRate(1, "s")), None, None, FALSE),
         Opt(<<[rate |-> RateArray(<<(<<1, "500ms">>), (<<1, "s">>)>>)]>>,
             None, None, None, FALSE),
         Opt(<<[rate |-> OneRate(2, "s")]>>,
             None, Some(OneRate(1, "s")), None, TRUE),
         Opt(<<[rate |-> OneRate(1, "500ms")], [rate |-> OneRate(1, "s")]>>,
             Some(OneRate(1, "s")), None, None, TRUE)}

\* the cookie limiter alone, preflight required or not, or with the IP and
\* the IP + User-Agent limiters
CookieLimiterOptions ==
  {Opt(<<>>, None, None, Some(CookieOpt(OneRate(l, "s"), pf)), FALSE) :
     l \in 1..MaxLimit, pf \in BOOLEAN}
  \cup {Opt(<<>>, Some(OneRate(2, "s")), Some(OneRate(2, "s")),
             Some(CookieOpt(OneRate(1, "500ms"), FALSE)), FALSE)}

\* limiters of several kinds: a custom plugin sorted after the cookie and
\* the IP limiter, two custom plugins sorted against their order in the
\* options, before IP + User-Agent or alone
ReasonOptions ==
  {Opt(<<[rate |-> OneRate(2, "s")]>>, Some(OneRate(1, "s")), None,
       Some(CookieOpt(OneRate(1, "500ms"), FALSE)), FALSE),
   Opt(<<[rate |-> OneRate(1, "s")], [rate |-> OneRate(1, "500ms")]>>,
       None, Some(OneRate(2, "s")), None, FALSE),
   Opt(<<[rate |-> OneRate(1, "s")], [rate |-> OneRate(1, "500ms")]>>,
       None, None, None, FALSE)}

\* what a constructor may be given: no, one or two custom plugins, each
\* built-in limiter left out, set, or set with an empty rate list, in the
\* options or in the deprecated options.rates
CtorRates ==
  {OneRate(1, "s"), RateArray(<<>>),
   RateArray(<<(<<1, "s">>), (<<2, "500ms">>)>>)}

CtorBuiltIn == {None, Some(OneRate(2, "s")), Some(RateArray(<<>>))}

CtorCookie ==
  {None} \cup {Some(CookieOpt(r, pf)) :
                 r \in {OneRate(1, "s"), RateArray(<<>>)}, pf \in BOOLEAN}

CtorOptions ==
  {[plugins |-> ps, IP |-> ip, IPUA |-> ipua, cookie |-> ck,
    onLimited |-> FALSE,
    rates |-> [IP |-> rip, IPUA |-> None, cookie |-> None]] :
     ps \in UNION {[1..n -> [rate : CtorRates]] : n \in 0..2},
     ip \in CtorBuiltIn, ipua \in CtorBuiltIn, ck \in CtorCookie,
     rip \in {None, Some(OneRate(1, "500ms"))}}

----------------------------------------------------------------------------
(* The requests *)

IPs == {"1.1.1.1", "2.2.2.2"}
UserAgents == {None, Some("Chrome")}
CustomResults == {Str("A"), Str("B"), Str(""), JTrue, JFalse, JNull}
ChainResults == {Str("A"), Str(""), JTrue, JFalse, JNull}
\* The cookies a client may send of its own: none, one without separator,
\* or one of the n identifiers issued so far with a signature of its making
\* (an identifier is not known before nanoid() has generated it).
ClientCookies(n) ==
  {<<>>, <<"junk">>} \cup {<<Nanoid(k), ";", "forged">> : k \in 1..n}

HasLimiter(class) == \E k \in 1..Len(plugins) : plugins[k].limiter.class = class

\* The requests of the clients whose addresses are ips and for which a custom
\* plugin answers one of results.
Requests(ips, results) ==
  [ip : IF HasLimiter("IPRateLimiter") \/ HasLimiter("IPUserAgentRateLimiter")
          THEN ips ELSE {"1.1.1.1"},
   ua : IF HasLimiter("IPUserAgentRateLimiter") THEN UserAgents
          ELSE {Some("Chrome")},
   custom : [1..Len(options.plugins) -> results],
   status : {JUndefined}]

\* what onLimited may answer
Statuses == {JTrue, JFalse, JUndefined}

----------------------------------------------------------------------------
(* History: the windows as section 4.1 of the specification defines them.  *)
(* The window of a key opens with the first hit that finds no open window  *)
(* and lasts ttl; hits[key] lists the hits of the key's latest window.     *)

NoHits == [k \in {} |-> <<>>]

WindowOpen(h, key, ttl, t) == key \in DOMAIN h /\ t < h[key][1].t + ttl

Hit(h, key, slot, ttl, t, limited) ==
  LET e == [t |-> t, limited |-> limited, slot |-> slot, retryAfter |-> 0]
  IN  [k \in DOMAIN h \cup {key} |->
         IF k # key THEN h[k]
         ELSE IF WindowOpen(h, key, ttl, t) THEN Append(h[key], e)
         ELSE <<e>>]

RECURSIVE SumLen(_, _)
SumLen(h, keys) ==
  IF keys = {} THEN 0
  ELSE LET k == CHOOSE x \in keys : TRUE
       IN  Len(h[k]) + SumLen(h, keys \ {k})

TotalHits(h) == SumLen(h, DOMAIN h)

RECURSIVE HitAll(_, _, _, _)
HitAll(h, adds, t, limited) ==
  IF adds = <<>> THEN h
  ELSE HitAll(Hit(h, Head(adds).hash, Head(adds).slot,
                  plugins[Head(adds).slot + 1].rate[2], t, limited),
              Tail(adds), t, limited)

----------------------------------------------------------------------------
(* The operations *)

\* the concurrent callers, and a caller that has not called yet
Procs == 1..MaxCalls
NoRequest == [ip |-> "", ua |-> None, custom |-> <<>>, status |-> JUndefined]
Idle ==
  [pc |-> "idle", req |-> NoRequest, i |-> 0, limited |-> "undefined",
   id |-> JUndefined, adds |-> <<>>, result |-> "none"]

\* no clear() yet
NoFresh == [on |-> FALSE, cache |-> EmptyCache, retryAfter |-> EmptyCache]

Init ==
  /\ options = NoOptions
  /\ status = "new"
  /\ plugins = <<>>
  /\ cache = EmptyCache
  /\ cookie = <<>>
  /\ ids = 0
  /\ preflighted = FALSE
  /\ retryAfter = EmptyCache
  /\ fresh = NoFresh
  /\ now = 0
  /\ hits = NoHits
  /\ last = [op |-> "init"]
  /\ calls = [p \in Procs |-> Idle]
  /\ frames = <<>>

\* new RateLimiter(o), o among the options S
New(S) ==
  /\ status = "new"
  /\ \E o \in S :
       LET c == Constructor(o)
       IN  /\ options' = [o EXCEPT !.plugins = GivenPlugins(o)]
           /\ status' = c.status
           /\ plugins' = c.plugins
           /\ last' = [op |-> "new", given |-> o.plugins]
  /\ UNCHANGED <<cache, cookie, ids, preflighted, retryAfter, fresh, now, hits,
                 calls, frames>>

\* limiter.isLimited(event, extraData), the event among reqs; the history
\* holds maxHits hits
IsLimitedWithin(reqs, maxHits) ==
  /\ status = "ready"
  /\ \E req0 \in reqs :
     \E st \in IF IsLimitedResult(req0).env.onLimited = <<>> THEN {JUndefined}
                ELSE Statuses :
     \E req \in {[req0 EXCEPT !.status = st]} :
     \E r \in {IsLimitedResult(req)} :
     \E h \in {HitAll(hits, r.env.adds, now, r.limited)} :
           /\ r.env.ids <= MaxIds
           /\ TotalHits(h) <= maxHits
           /\ cache' = r.env.cache
           /\ cookie' = r.env.cookie
           /\ ids' = r.env.ids
           /\ hits' = h
           /\ last' = [op |-> "isLimited", before |-> cache,
                       cookieBefore |-> cookie, hitsBefore |-> hits,
                       status |-> IF r.env.onLimited = <<>> THEN JUndefined
                                  ELSE req.status,
                       res |-> r]
  /\ UNCHANGED <<options, status, plugins, preflighted, retryAfter, fresh, now,
                 calls, frames>>

IsLimited(reqs) == IsLimitedWithin(reqs, MaxHits)

\* limiter.clear()
Clear ==
  /\ status = "ready"
  /\ cache' = EmptyCache
  /\ hits' = NoHits
  /\ last' = [op |-> "clear"]
  /\ UNCHANGED <<options, status, plugins, cookie, ids, preflighted,
                 retryAfter, fresh, now, calls, frames>>

\* time passes; the cache's timer removes what has expired
Tick ==
  /\ status = "ready"
  /\ now + TickMs <= MaxTime
  /\ now' = now + TickMs
  /\ cache' = PurgeStale(cache, now + TickMs)
  /\ retryAfter' = PurgeStale(retryAfter, now + TickMs)
  /\ fresh' = [fresh EXCEPT !.cache = PurgeStale(@, now + TickMs),
                            !.retryAfter = PurgeStale(@, now + TickMs)]
  /\ last' = [op |-> "tick"]
  /\ UNCHANGED <<options, status, plugins, cookie, ids, preflighted, hits,
                 calls, frames>>

\* limiter.cookieLimiter?.preflight(event)
Preflight ==
  /\ status = "ready"
  /\ HasLimiter("CookieRateLimiter")
  /\ LET r == CookieUserId("preflight", cookie,
                           [Env EXCEPT !.cookie = cookie])
     IN  /\ r.env.ids <= MaxIds
         /\ cookie' = r.env.cookie
         /\ ids' = r.env.ids
         /\ last' = [op |-> "preflight", cookieBefore |-> cookie, id |-> r.id,
                     idsBefore |-> ids, again |-> last.op = "preflight"]
  /\ preflighted' = TRUE
  /\ UNCHANGED <<options, status, plugins, cache, retryAfter, fresh, now, hits,
                 calls, frames>>

\* the client deletes its cookie or sends one of its own making
SetCookie ==
  /\ status = "ready"
  /\ frames = <<>>
  /\ HasLimiter("CookieRateLimiter")
  /\ \E c \in ClientCookies(ids) :
       /\ cookie' = c
       /\ last' = [op |-> "setCookie", before |-> cache]
  /\ preflighted' = FALSE
  /\ UNCHANGED <<options, status, plugins, cache, ids, retryAfter, fresh, now,
                 hits, calls, frames>>

NewSingle == New(SingleOptions)
IsLimitedSingle == IsLimited(Requests(IPs, CustomResults))

NextSingle == NewSingle \/ IsLimitedSingle \/ Clear \/ Tick

SpecSingle == Init /\ [][NextSingle]_vars

NewChain == New(ChainOptions)
IsLimitedChain == IsLimited(Requests({"1.1.1.1"}, ChainResults))

NextChain == NewChain \/ IsLimitedChain \/ Clear \/ Tick

SpecChain == Init /\ [][NextChain]_vars

\* the history h, the hit that limited the call holding the retryAfter reported
Delayed(h, r, o) ==
  IF o.limited /\ r.hash # None
    THEN [h EXCEPT ![r.hash[1]][Len(h[r.hash[1]])].retryAfter = o.retryAfter]
    ELSE h

\* What the caller of check sees.
Outcome(o) ==
  [threw |-> o.threw, limited |-> o.limited, retryAfter |-> o.retryAfter,
   reason |-> o.reason]

\* retryAfterLimiter.check(event, extraData), the event among reqs; the
\* limiter constructed at the last clear() is given the same call
Check(reqs) ==
  /\ status = "ready"
  /\ \E req0 \in reqs :
     \E st \in IF IsLimitedResult(req0).env.onLimited = <<>> THEN {JUndefined}
                ELSE Statuses :
     \E req \in {[req0 EXCEPT !.status = st]} :
     \E r \in {IsLimitedResult(req)} :
     \E o \in {CheckResult(r, retryAfter, now)} :
     \E fr \in {IsLimitedFrom(0, "undefined",
                               [Env EXCEPT !.cache = fresh.cache], req)} :
     \E fo \in {CheckResult(fr, fresh.retryAfter, now)} :
     \E h \in {Delayed(HitAll(hits, r.env.adds, now, r.limited), r, o)} :
           /\ TotalHits(h) <= MaxHits
           /\ cache' = r.env.cache
           /\ retryAfter' = o.store
           /\ fresh' = IF fresh.on
                          THEN [fresh EXCEPT !.cache = fr.env.cache,
                                             !.retryAfter = fo.store]
                          ELSE fresh
           /\ hits' = h
           /\ last' = [op |-> "check", before |-> cache,
                       retryBefore |-> retryAfter, hitsBefore |-> hits,
                       status |-> IF r.env.onLimited = <<>> THEN JUndefined
                                  ELSE req.status,
                       res |-> r, out |-> Outcome(o), added |-> o.added,
                       freshOut |-> Outcome(fo)]
  /\ UNCHANGED <<options, status, plugins, cookie, ids, preflighted, now,
                 calls, frames>>

\* retryAfterLimiter.clear()
ClearRetryAfter ==
  /\ status = "ready"
  /\ LET c == RetryAfterClear(cache, retryAfter)
     IN  /\ cache' = c.cache
         /\ retryAfter' = c.retryAfter
  /\ fresh' = [on |-> TRUE, cache |-> EmptyCache, retryAfter |-> EmptyCache]
  /\ hits' = NoHits
  /\ last' = [op |-> "clear", dropped |-> DOMAIN retryAfter]
  /\ UNCHANGED <<options, status, plugins, cookie, ids, preflighted, now,
                 calls, frames>>

\* a RetryAfterRateLimiter of one slot
NewRetryAfter == New(SingleOptions)
CheckSingle == Check(Requests(IPs, CustomResults))

NextRetryAfter == NewRetryAfter \/ CheckSingle \/ ClearRetryAfter \/ Tick

SpecRetryAfter == Init /\ [][NextRetryAfter]_vars

\* a limiter with the cookie limiter and a client that keeps, deletes or
\* forges its cookie
NewCookie == New(CookieLimiterOptions)
IsLimitedCookie == IsLimitedWithin(Requests({"1.1.1.1"}, {}), 2 * MaxHits)

NextCookie ==
  NewCookie \/ IsLimitedCookie \/ Preflight \/ SetCookie \/ Clear \/ Tick

SpecCookie == Init /\ [][NextCookie]_vars

\* limiters of several kinds, for the reason check() reports
ReasonResults == {Str("A"), JFalse, JNull}
NewReason == New(ReasonOptions)
IsLimitedReason ==
  IsLimitedWithin(Requests({"1.1.1.1"}, ReasonResults), MaxHits + 2)

NextReason == NewReason \/ IsLimitedReason \/ Tick

SpecReason == Init /\ [][NextReason]_vars

\* Concurrent calls of isLimited. A call runs until its next await and is
\* resumed when the awaited value is there; between two awaits nothing else
\* runs. _isLimited awaits plugin.limiter.hash, hashFunction and store.add,
\* and TTLStore.add has no await of its own: its get and set run in the
\* turn that calls it. The limiters have no cookie limiter and no onLimited.
ConcurrentOptions ==
  {Opt(<<[rate |-> OneRate(l, "s")]>>, None, None, None, FALSE) : l \in Limits}
  \cup {Opt(<<[rate |-> OneRate(2, "s")]>>, Some(OneRate(1, "s")), None, None,
             FALSE)}

ConcurrentResults == {Str("A"), Str("B"), JNull}

NewConcurrent == New(ConcurrentOptions)

\* the call p ends with the verdict result
Settled(p, result) ==
  calls' = [calls EXCEPT ![p].pc = "done", ![p].result = result]

\* for (...; i < this.plugins.length; ...): the next slot, or the end of the
\* loop
NextSlot(p, limited, adds) ==
  IF calls[p].i + 1 < Len(plugins)
    THEN calls' = [calls EXCEPT ![p].pc = "hash", ![p].i = @ + 1,
                                ![p].limited = limited, ![p].adds = adds]
    ELSE calls' = [calls EXCEPT ![p].pc = "done", ![p].limited = limited,
                                ![p].adds = adds,
                                ![p].result = IF limited = "true"
                                                THEN "limited" ELSE "passed"]

\* isLimited(event) is called: plugin.limiter.hash of the first slot is awaited
Begin(p) ==
  /\ status = "ready"
  /\ calls[p].pc = "idle"
  /\ \E req \in Requests({"1.1.1.1"}, ConcurrentResults) :
       calls' = [calls EXCEPT ![p].pc = "hash", ![p].req = req]
  /\ UNCHANGED <<options, status, plugins, cache, cookie, ids, preflighted,
                 retryAfter, fresh, now, hits, last, frames>>

\* plugin.limiter.hash has answered: the verdict for false and true, the
\* next slot for null, the error for an empty string, and for a string
\* hashFunction(id) is awaited
AfterPluginHash(p) ==
  /\ calls[p].pc = "hash"
  /\ LET id == PluginHash(plugins[calls[p].i + 1].limiter, calls[p].req, Env).id
     IN  IF id = JFalse THEN Settled(p, "limited")
         ELSE IF id = JNull
           THEN NextSlot(p, OnNull(calls[p].limited), calls[p].adds)
         ELSE IF IsEmpty(id) THEN Settled(p, "threw")
         ELSE IF id = JTrue THEN Settled(p, "passed")
         ELSE calls' = [calls EXCEPT ![p].pc = "digest", ![p].id = id,
                                     ![p].limited = "false"]
  /\ UNCHANGED <<options, status, plugins, cache, cookie, ids, preflighted,
                 retryAfter, fresh, now, hits, last, frames>>

\* mutant: the increment of a live counter is lost
StoreAdd_LostUpdate(c, hash, ttl, t) ==
  [ret |-> IF hash \in DOMAIN c THEN c[hash].value ELSE 1,
   cache |-> CacheSet(c, hash, IF hash \in DOMAIN c THEN c[hash].value ELSE 1,
                      ttl, t)]

\* this.store.add(hash, rate[1]) up to its return: get and set in one turn
StoreAdd(c, hash, ttl, t) == TTLStoreAdd(c, hash, ttl, t)

\* hashFunction has answered: the key is made and store.add is called, which
\* reads and writes the counter before its result is awaited
AfterDigest(p) ==
  /\ calls[p].pc = "digest"
  /\ LET i == calls[p].i
         hash == ToString(i) \o hashFunction(calls[p].id.v)
         added == StoreAdd(cache, hash, plugins[i + 1].rate[2], now)
     IN  /\ cache' = added.cache
         /\ calls' = [calls EXCEPT
                        ![p].pc = "store",
                        ![p].adds = Append(@, [hash |-> hash, slot |-> i,
                                               currentRate |-> added.ret])]
  /\ UNCHANGED <<options, status, plugins, cookie, ids, preflighted,
                 retryAfter, fresh, now, hits, last, frames>>

\* store.add has answered: over the limit the call is limited, else the
\* loop goes on
AfterStoreAdd(p) ==
  /\ calls[p].pc = "store"
  /\ LET i == calls[p].i
         currentRate == calls[p].adds[Len(calls[p].adds)].currentRate
     IN  IF OverLimit(currentRate, plugins[i + 1].rate)
           THEN Settled(p, "limited")
           ELSE NextSlot(p, "false", calls[p].adds)
  /\ UNCHANGED <<options, status, plugins, cache, cookie, ids, preflighted,
                 retryAfter, fresh, now, hits, last, frames>>

Resume ==
  \E p \in Procs :
     Begin(p) \/ AfterPluginHash(p) \/ AfterDigest(p) \/ AfterStoreAdd(p)

NextConcurrent == NewConcurrent \/ Resume

SpecConcurrent == Init /\ [][NextConcurrent]_vars

\* The calls of the cookie limiter, one frame at a time. hash, preflight,
\* userIdFromCookie and setPreflightCookie call each other; a frame is a
\* call of one of them: at its start, awaiting the call it made (await), or
\* returning what that call returns (tail). The frame on top runs.
Frame(fn, data) == [fn |-> fn, data |-> data, at |-> "start", got |-> JUndefined]

\* the frame on top makes a call and waits for it
Calling(st, at, callee) ==
  [frames |-> Append([st.frames EXCEPT ![Len(st.frames)].at = at], callee),
   cookie |-> st.cookie, ids |-> st.ids, out |-> None]

\* the frame on top returns v, to its caller or out of the limiter
Returning(st, v) ==
  LET rest == SubSeq(st.frames, 1, Len(st.frames) - 1)
  IN  [frames |-> IF rest = <<>> THEN rest
                  ELSE [rest EXCEPT ![Len(rest)].got = v],
       cookie |-> st.cookie, ids |-> st.ids,
       out |-> IF rest = <<>> THEN Some(v) ELSE None]

\* CookieRateLimiter.hash
StepHash(st, f) ==
  IF f.at = "start"
    THEN Calling(st, "await", Frame("userIdFromCookie", st.cookie))
    ELSE Returning(st, IF ~Falsy(f.got) THEN f.got ELSE JFalse)

\* CookieRateLimiter.preflight
StepPreflight(st, f) ==
  IF f.at = "start"
    THEN IF st.cookie # <<>> /\ st.cookie # <<"">>
           THEN Calling(st, "await", Frame("userIdFromCookie", st.cookie))
           ELSE Calling(st, "tail", Frame("setPreflightCookie", <<>>))
  ELSE IF f.at = "await"
    THEN IF ~Falsy(f.got) THEN Returning(st, f.got)
         ELSE Calling(st, "tail", Frame("setPreflightCookie", <<>>))
  ELSE Returning(st, f.got)

\* CookieRateLimiter.setPreflightCookie
StepSetPreflightCookie(st, f) ==
  LET r == SetPreflightCookie([ids |-> st.ids, cookie |-> st.cookie])
  IN  Returning([st EXCEPT !.ids = r.env.ids, !.cookie = r.env.cookie], r.id)

\* if (!cookie) return this.requirePreflight ? null : this.preflight(event)
StepNoCookie(st) ==
  IF CookieOptions.preflight THEN Returning(st, JNull)
  ELSE Calling(st, "tail", Frame("preflight", <<>>))

\* mutant: a cookie that is not valid is handled like a missing one, as by
\* empty() before 0.7.0
StepInvalidCookie_Empty(st) == StepNoCookie(st)

\* a cookie without identifier or signature, or with a wrong signature:
\* return this.setPreflightCookie(event)
StepInvalidCookie(st) == Calling(st, "tail", Frame("setPreflightCookie", <<>>))

\* CookieRateLimiter.userIdFromCookie
StepUserIdFromCookie(st, f) ==
  IF f.at = "tail" THEN Returning(st, f.got)
  ELSE IF f.data = <<>> \/ f.data = <<"">> THEN StepNoCookie(st)
  ELSE LET parts == Split(f.data)
           userId == parts[1]
           secretHash == IF Len(parts) >= 2 THEN parts[2] ELSE ""
       IN  IF userId = "" \/ secretHash = "" THEN StepInvalidCookie(st)
           ELSE IF ~SignatureOk(userId, secretHash) THEN StepInvalidCookie(st)
           ELSE Returning(st, Str(userId))

\* the frame on top runs to its next call or to its return
StepOf(st) ==
  LET f == st.frames[Len(st.frames)]
  IN  CASE f.fn = "hash" -> StepHash(st, f)
        [] f.fn = "preflight" -> StepPreflight(st, f)
        [] f.fn = "userIdFromCookie" -> StepUserIdFromCookie(st, f)
        [] f.fn = "setPreflightCookie" -> StepSetPreflightCookie(st, f)

\* limiter.cookieLimiter.hash(event) or .preflight(event) is called
CallCookieLimiter ==
  /\ status = "ready"
  /\ HasLimiter("CookieRateLimiter")
  /\ frames = <<>>
  /\ ids < MaxIds
  /\ \E fn \in {"hash", "preflight"} :
       /\ frames' = <<Frame(fn, cookie)>>
       /\ last' = [op |-> "called", fn |-> fn]
  /\ UNCHANGED <<options, status, plugins, cache, cookie, ids, preflighted,
                 retryAfter, fresh, now, hits, calls>>

Step ==
  /\ frames # <<>>
  /\ \E r \in {StepOf([frames |-> frames, cookie |-> cookie, ids |-> ids])} :
       /\ Len(r.frames) <= MaxDepth
       /\ frames' = r.frames
       /\ cookie' = r.cookie
       /\ ids' = r.ids
       /\ last' = IF r.out = None THEN last
                  ELSE [op |-> "returned", fn |-> frames[1].fn,
                        data |-> frames[1].data, value |-> r.out[1]]
  /\ UNCHANGED <<options, status, plugins, cache, preflighted, retryAfter,
                 fresh, now, hits, calls>>

NextCookieCalls == NewCookie \/ CallCookieLimiter \/ Step \/ SetCookie

\* a call that can take a step takes it
SpecCookieCalls == Init /\ [][NextCookieCalls]_vars /\ WF_vars(Step)

\* a custom plugin that answers true to every request, next to the IP
\* limiter sorted before it (a shorter window, or the same window and a
\* smaller limit) or after it
TrueOptions ==
  {Opt(<<[rate |-> OneRate(2, "s")]>>, Some(OneRate(l, "500ms")), None, None,
       FALSE) : l \in 1..MaxLimit}
  \cup {Opt(<<[rate |-> OneRate(2, "s")]>>, Some(OneRate(1, "s")), None, None,
             FALSE),
         Opt(<<[rate |-> OneRate(1, "500ms")]>>, Some(OneRate(1, "s")), None,
             None, FALSE)}

NewTrue == New(TrueOptions)
IsLimitedTrue == IsLimited(Requests(IPs, {JTrue}))

NextTrue == NewTrue \/ IsLimitedTrue \/ Clear \/ Tick

SpecTrue == Init /\ [][NextTrue]_vars

\* One client among others. The calls of the client A are also given to a
\* second limiter of the same options (fresh), which sees no other call; the
\* other clients have, in every slot, another token than A.
BesideOptions ==
  {Opt(<<[rate |-> OneRate(1, "500ms")], [rate |-> OneRate(2, "s")]>>,
       None, None, None, FALSE),
   Opt(<<>>, Some(OneRate(1, "s")), Some(OneRate(2, "s")), None, FALSE),
   Opt(<<[rate |-> OneRate(2, "s")]>>, Some(OneRate(1, "500ms")), None, None,
       FALSE)}

RequestOfA ==
  [ip |-> "1.1.1.1", ua |-> Some("Chrome"),
   custom |-> [n \in 1..Len(options.plugins) |-> Str("A")],
   status |-> JUndefined]

\* the token of the request req at slot i
TokenAt(i, req) == PluginHash(plugins[i + 1].limiter, req, Env).id

OfA(req) == \A i \in 0..(Len(plugins) - 1) : TokenAt(i, req) = TokenAt(i, RequestOfA)

Apart(req) ==
  \A i \in 0..(Len(plugins) - 1) : TokenAt(i, req) # TokenAt(i, RequestOfA)

NewBeside == New(BesideOptions)

IsLimitedBeside ==
  /\ status = "ready"
  /\ \E req \in {x \in Requests(IPs, {Str("A"), Str("B")}) :
                    x = RequestOfA \/ Apart(x)} :
     \E r \in {IsLimitedResult(req)} :
     \E alone \in {IsLimitedFrom(0, "undefined",
                                  [Env EXCEPT !.cache = fresh.cache], req)} :
     \E h \in {HitAll(hits, r.env.adds, now, r.limited)} :
           /\ TotalHits(h) <= 2 * MaxHits
           /\ cache' = r.env.cache
           /\ fresh' = IF OfA(req) THEN [fresh EXCEPT !.cache = alone.env.cache]
                       ELSE fresh
           /\ hits' = h
           /\ last' = [op |-> "isLimited", before |-> cache,
                       cookieBefore |-> cookie, hitsBefore |-> hits,
                       status |-> JUndefined, res |-> r,
                       ofA |-> OfA(req),
                       alone |-> IF OfA(req) THEN Some(alone.limited) ELSE None]
  /\ UNCHANGED <<options, status, plugins, cookie, ids, preflighted,
                 retryAfter, now, calls, frames>>

NextBeside == NewBeside \/ IsLimitedBeside \/ Tick

SpecBeside == Init /\ [][NextBeside]_vars

\* The keys of a limiter whose hashFunction is the user's: any function
\* from strings to strings, so that any digests may come, of any length.
Digests == {"", "0", "a", "0a"}

SlotAndDigest == [i : 0..(MaxSlots - 1), digest : Digests]

\* two counters are given their keys
MakeKeys ==
  /\ status = "new" /\ last.op = "init"
  /\ \E a \in SlotAndDigest, b \in SlotAndDigest :
       last' = [op |-> "keys", a |-> a, b |-> b,
                keyA |-> SlotKey(a.i, a.digest),
                keyB |-> SlotKey(b.i, b.digest)]
  /\ UNCHANGED <<options, status, plugins, cache, cookie, ids, preflighted,
                 retryAfter, fresh, now, hits, calls, frames>>

NextKeys == MakeKeys

SpecKeys == Init /\ [][NextKeys]_vars

\* construction alone, over every shape of options
NewAny == New(CtorOptions)

NextCtor == NewAny

SpecCtor == Init /\ [][NextCtor]_vars

----------------------------------------------------------------------------
(* What the claims speak of *)

Called == status = "ready" /\ last.op = "isLimited"

\* the last call reached the store
Counted == Called /\ last.res.env.adds # <<>>

Adds == last.res.env.adds
SlotLimit(i) == plugins[i + 1].rate[1]
SlotTTL(i) == plugins[i + 1].rate[2]

\* the last call was limited by the count of key k
LimitedBy(k) == last.res.limited /\ last.res.hash = Some(k)

\* the window of key k had elapsed when the last call was made
Elapsed(k, i) ==
  k \in DOMAIN last.hitsBefore /\ now >= last.hitsBefore[k][1].t + SlotTTL(i)

PrevHit(k) == last.hitsBefore[k][Len(last.hitsBefore[k])]

----------------------------------------------------------------------------
(* C1: with one slot of limit L, a call that is at most the L-th hit of    *)
(* its identity in the window is reported not-limited.                     *)
C1_WithinLimitNotLimited ==
  (Counted /\ Len(plugins) = 1) =>
     (Len(hits[Adds[1].hash]) <= SlotLimit(0) =>
        ~last.res.limited /\ ~last.res.threw)

C1_Witness ==
  /\ Counted /\ Len(plugins) = 1
  /\ SlotLimit(0) = MaxLimit
  /\ Len(hits[Adds[1].hash]) = SlotLimit(0)
  /\ ~last.res.limited

(* C2: a hit that is beyond the L-th of its key in the window makes the    *)
(* call limited, unless onLimited overrides.                               *)
C2_OverLimitLimited ==
  Counted =>
    \A j \in 1..Len(Adds) :
       (Len(hits[Adds[j].hash]) > SlotLimit(Adds[j].slot)
          /\ last.status # JTrue)
       => last.res.limited

\* a call later than the (L+1)-th, limited
C2_Witness ==
  /\ Counted /\ Len(plugins) = 1
  /\ SlotLimit(0) >= 1
  /\ Len(hits[Adds[1].hash]) > SlotLimit(0) + 1
  /\ last.res.limited

(* C3: a hit made at least one window after a limited hit of the same key  *)
(* is the first hit of a new window (count 1) and, the limit being at      *)
(* least 1, that key does not limit the call.                              *)
C3_ResetAfterWindow ==
  Counted =>
    \A j \in 1..Len(Adds) :
       LET k == Adds[j].hash
           i == Adds[j].slot
       IN  (/\ k \in DOMAIN last.hitsBefore
            /\ PrevHit(k).limited
            /\ now >= PrevHit(k).t + SlotTTL(i)
            /\ SlotLimit(i) >= 1)
           => /\ cache[k].value = 1
              /\ Len(hits[k]) = 1
              /\ ~LimitedBy(k)
              /\ (Len(plugins) = 1 => ~last.res.limited)

C3_Witness ==
  /\ Counted /\ Len(plugins) = 1
  /\ Adds[1].hash \in DOMAIN last.hitsBefore
  /\ PrevHit(Adds[1].hash).limited
  /\ now >= PrevHit(Adds[1].hash).t + SlotTTL(0)
  /\ SlotLimit(0) >= 1
  /\ ~last.res.limited

(* C4: a live counter expires one window after the hit that created it,    *)
(* however many hits followed; a hit made once that window has elapsed is  *)
(* counted as 1, also when the previous hit is less than a window old.     *)
C4_ExpiryAnchored ==
  /\ \A k \in DOMAIN cache :
        /\ k \in DOMAIN hits
        /\ cache[k].expires = hits[k][1].t + SlotTTL(hits[k][1].slot)
        /\ cache[k].value = Len(hits[k])
  /\ Counted =>
       \A j \in 1..Len(Adds) :
          Elapsed(Adds[j].hash, Adds[j].slot) => cache[Adds[j].hash].value = 1

\* counted afresh although the previous hit, a limited one, is recent
C4_Witness ==
  /\ Counted /\ Len(plugins) = 1
  /\ Elapsed(Adds[1].hash, 0)
  /\ PrevHit(Adds[1].hash).limited
  /\ now < PrevHit(Adds[1].hash).t + SlotTTL(0)
  /\ cache[Adds[1].hash].value = 1
  /\ ~last.res.limited

----------------------------------------------------------------------------
(* The counters of a slot *)

\* every string a plugin of the model may answer
AllTokens ==
  {"A", "B", ""} \cup IPs \cup {ip \o "Chrome" : ip \in IPs}
  \cup {Nanoid(n) : n \in 1..(MaxIds + 1)}

\* the counter keys of slot i
KeysOfSlot(i) == {CounterKey(i, x) : x \in AllTokens}

Slots == 0..(Len(plugins) - 1)

\* the last call left the counters of slot i as they were
Untouched(i) ==
  \A k \in KeysOfSlot(i) :
     /\ k \in DOMAIN cache <=> k \in DOMAIN last.before
     /\ k \in DOMAIN cache => cache[k] = last.before[k]

\* every counter is the counter of some slot
KeysKnown == DOMAIN cache \subseteq UNION {KeysOfSlot(i) : i \in Slots}

\* what the slots answered in the last call, slot 0 first
Evaluated == last.res.env.evaluated

----------------------------------------------------------------------------
(* C5: when the plugin of a slot answers false and onLimited does not      *)
(* override, the call is limited, the chain stops at that slot and the     *)
(* counters of the slots after it are left as they were.                   *)
C5_FalseShortCircuits ==
  Called =>
    /\ KeysKnown
    /\ \A j \in 1..Len(Evaluated) :
         (Evaluated[j] = JFalse /\ last.status # JTrue)
         => /\ last.res.limited /\ ~last.res.threw
            /\ Len(Evaluated) = j
            /\ \A i \in Slots : i > j - 1 => Untouched(i)

\* false at the first slot, while a later slot holds a counter
C5_Witness ==
  /\ Called /\ Len(plugins) >= 2
  /\ Evaluated = <<JFalse>>
  /\ last.res.limited
  /\ \E k \in DOMAIN cache : k \notin KeysOfSlot(0)

(* C6: when the plugin of a slot answers true, the call is not limited,    *)
(* the chain stops at that slot, onLimited is not called, and the counters *)
(* of that slot and of the slots after it are left as they were.           *)
C6_TrueShortCircuits ==
  Called =>
    /\ KeysKnown
    /\ \A j \in 1..Len(Evaluated) :
         Evaluated[j] = JTrue
         => /\ ~last.res.limited /\ ~last.res.threw
            /\ Len(Evaluated) = j
            /\ last.res.env.onLimited = <<>>
            /\ \A i \in Slots : i >= j - 1 => Untouched(i)

\* true after a null, while the slot after it is over its limit
C6_Witness ==
  /\ Called /\ Len(plugins) = 3
  /\ Evaluated = <<JNull, JTrue>>
  /\ ~last.res.limited
  /\ \E k \in KeysOfSlot(2) :
        k \in DOMAIN cache /\ cache[k].value > SlotLimit(2)

(* C7: a call in which every slot answers null is limited; onLimited is    *)
(* not asked and no counter changes.                                       *)
C7_AllNullLimited ==
  Called =>
    ((Len(Evaluated) = Len(plugins)
        /\ \A j \in 1..Len(Evaluated) : Evaluated[j] = JNull)
     => /\ last.res.limited /\ ~last.res.threw
        /\ cache = last.before)

C7_Witness ==
  /\ Called /\ Len(plugins) >= 2
  /\ options.onLimited
  /\ \A j \in 1..Len(plugins) : Evaluated[j] = JNull
  /\ Len(Evaluated) = Len(plugins)
  /\ last.res.limited

(* C8: in a call whose slots answer null or a string, at least one of each, *)
(* the verdict is that of the counted slots: limited exactly when a        *)
(* counted slot is over its limit (and onLimited does not override).       *)
C8_NullDefersToTokens ==
  Called =>
    ((/\ \A j \in 1..Len(Evaluated) :
            Evaluated[j] = JNull \/ Evaluated[j].t = "string"
      /\ \E j \in 1..Len(Evaluated) : Evaluated[j] = JNull
      /\ Adds # <<>>
      /\ ~last.res.threw
      /\ last.status # JTrue)
     => (last.res.limited <=>
           \E j \in 1..Len(Adds) :
              Len(hits[Adds[j].hash]) > SlotLimit(Adds[j].slot)))

\* a null after a counted slot: not limited
C8_Witness ==
  /\ Called /\ Len(plugins) = 2
  /\ Len(Evaluated) = 2
  /\ Evaluated[1].t = "string" /\ Evaluated[2] = JNull
  /\ ~last.res.limited

(* C9: when the plugin of a slot answers the empty string the call throws: *)
(* no verdict, onLimited is not called, and the counters of that slot and  *)
(* of the slots after it are left as they were.                            *)
C9_EmptyStringThrows ==
  Called =>
    /\ KeysKnown
    /\ \A j \in 1..Len(Evaluated) :
         Evaluated[j] = Str("")
         => /\ last.res.threw
            /\ Len(Evaluated) = j
            /\ last.res.env.onLimited = <<>>
            /\ \A i \in Slots : i >= j - 1 => Untouched(i)

\* the empty string at the first of several slots, onLimited being set
C9_Witness ==
  /\ Called /\ Len(plugins) >= 2
  /\ options.onLimited
  /\ Evaluated = <<Str("")>>
  /\ last.res.threw
  /\ cache # EmptyCache

----------------------------------------------------------------------------
(* C10: a constructor given no plugin at all, or a plugin whose rate list  *)
(* is empty, throws and leaves no limiter.                                 *)

\* the rate lists the options o give to plugins
RatesGiven(o) ==
  {o.plugins[n].rate : n \in 1..Len(o.plugins)}
  \cup {r[1] : r \in {Coalesce(o.IP, o.rates.IP),
                      Coalesce(o.IPUA, o.rates.IPUA)} \ {None}}
  \cup {c[1].rate : c \in {Coalesce(o.cookie, o.rates.cookie)} \ {None}}

HasEmptyRate(o) == \E r \in RatesGiven(o) : r.isArray /\ r.r = <<>>

C10_ConstructorRefuses ==
  status # "new" =>
    ((RatesGiven(options) = {} \/ HasEmptyRate(options))
     => status = "threw" /\ plugins = <<>>)

\* refused for the empty rate list of a custom plugin, IP being well set
C10_Witness ==
  /\ status = "threw"
  /\ options.IP # None /\ ~(options.IP[1].isArray)
  /\ options.IPUA = None /\ options.cookie = None
  /\ Len(options.plugins) = 1
  /\ options.plugins[1].rate = RateArray(<<>>)

----------------------------------------------------------------------------
(* C11: the slots are in ascending order of window, then of limit, whatever *)
(* the order they were configured in; a call asks the slots in that order, *)
(* and asks a slot only when every slot before it was asked and did not    *)
(* end the chain.                                                          *)

\* the slots in the order the options give them
Configured(o) == ConcatBuiltIns(FlatMapPlugins(o.plugins, 1), BuiltIns(o)).slots

Count(seq, x) == Cardinality({k \in 1..Len(seq) : seq[k] = x})

Ascending(ps) ==
  \A a, b \in 1..Len(ps) :
     a < b => \/ ps[a].rate[2] < ps[b].rate[2]
              \/ /\ ps[a].rate[2] = ps[b].rate[2]
                 /\ ps[a].rate[1] <= ps[b].rate[1]

\* the answer of slot i in the last call let the chain go on
WentOn(i) ==
  LET id == Evaluated[i + 1]
  IN  \/ id = JNull
      \/ /\ id.t = "string" /\ id.v # ""
         /\ cache[CounterKey(i, id.v)].value <= SlotLimit(i)

C11_SlotsAscending ==
  status = "ready" =>
    /\ Ascending(plugins)
    /\ Len(plugins) = Len(Configured(options))
    /\ \A k \in 1..Len(plugins) :
          Count(plugins, plugins[k]) = Count(Configured(options), plugins[k])
    /\ Called =>
         /\ last.res.env.order = [j \in 1..Len(Evaluated) |-> j - 1]
         /\ Len(Evaluated) <= Len(plugins)
         /\ \A j \in 1..(Len(Evaluated) - 1) : WentOn(j - 1)

\* the two rates of a plugin with the IP limiter, configured last, between
\* them; all three asked
C11_Witness ==
  /\ Called /\ Len(plugins) = 3
  /\ plugins[1].limiter.class = "plugin"
  /\ plugins[2].limiter.class = "IPRateLimiter"
  /\ plugins[3].limiter = plugins[1].limiter
  /\ Configured(options) # plugins
  /\ Len(Evaluated) = 3

----------------------------------------------------------------------------
(* C12: a plugin given N rates has N slots; the same token is counted once *)
(* in each, under a key of its own; the call is limited as soon as one of  *)
(* the counts is over its limit; and each count is that of its own window, *)
(* whatever the counts of the plugin's other rates.                         *)

\* the slots of the limiter of slot i
SlotsOf(limiter) == {i \in Slots : plugins[i + 1].limiter = limiter}

CountBefore(k) == IF k \in DOMAIN last.before THEN last.before[k].value ELSE 0

C12_RatesCountedApart ==
  status = "ready" =>
    /\ \A n \in 1..Len(options.plugins) :
          Cardinality(SlotsOf(CustomPlugin(options.plugins[n].rate, n)))
            = IF options.plugins[n].rate.isArray
                THEN Len(options.plugins[n].rate.r) ELSE 1
    /\ Called =>
         \A a \in 1..Len(Adds) :
            /\ cache[Adds[a].hash].value = CountBefore(Adds[a].hash) + 1
            /\ cache[Adds[a].hash].value = Len(hits[Adds[a].hash])
            /\ (cache[Adds[a].hash].value > SlotLimit(Adds[a].slot)
                  /\ last.status # JTrue)
               => last.res.limited /\ a = Len(Adds)
            /\ \A b \in 1..Len(Adds) :
                 (a # b /\ Adds[a].id = Adds[b].id
                    /\ plugins[Adds[a].slot + 1].limiter
                         = plugins[Adds[b].slot + 1].limiter)
                 => Adds[a].hash # Adds[b].hash

\* a token limited by the second rate of its plugin, the count of the first
\* rate having started anew
C12_Witness ==
  /\ Called /\ Len(plugins) = 2 /\ Len(options.plugins) = 1
  /\ Len(Adds) = 2 /\ Adds[1].id = Adds[2].id
  /\ cache[Adds[1].hash].value = 1
  /\ CountBefore(Adds[1].hash) = 0
  /\ cache[Adds[2].hash].value = 2
  /\ SlotLimit(1) = 1
  /\ last.res.limited

----------------------------------------------------------------------------
(* C13: the keys of two different slots are never equal, also for the same *)
(* token; the only counters a call changes are those it counted, each in   *)
(* the slot that counted it, so a hit of one slot leaves the counts of the *)
(* other slots as they were.                                               *)

Changed(k) ==
  \/ (k \in DOMAIN cache) # (k \in DOMAIN last.before)
  \/ k \in DOMAIN cache /\ k \in DOMAIN last.before
       /\ cache[k] # last.before[k]

C13_SlotKeysApart ==
  status = "ready" =>
    /\ \A i, j \in Slots : i # j => KeysOfSlot(i) \cap KeysOfSlot(j) = {}
    /\ Called =>
         /\ KeysKnown
         /\ \A a, b \in 1..Len(Adds) :
               a # b => /\ Adds[a].slot # Adds[b].slot
                        /\ Adds[a].hash # Adds[b].hash
         /\ \A a \in 1..Len(Adds) : Adds[a].hash \in KeysOfSlot(Adds[a].slot)
         /\ \A k \in DOMAIN cache \cup DOMAIN last.before :
               Changed(k) => \E a \in 1..Len(Adds) : Adds[a].hash = k
         /\ \A i \in Slots :
               (\A a \in 1..Len(Adds) : Adds[a].slot # i) => Untouched(i)

\* two plugins answer the same token; the first counts it anew, and the
\* count the second holds for it goes on
C13_Witness ==
  /\ Called /\ Len(options.plugins) = 2 /\ Len(plugins) = 2
  /\ Len(Adds) = 2 /\ Adds[1].id = Adds[2].id
  /\ CountBefore(Adds[1].hash) = 0
  /\ cache[Adds[1].hash].value = 1
  /\ CountBefore(Adds[2].hash) = 1
  /\ cache[Adds[2].hash].value = 2

----------------------------------------------------------------------------
(* C19: a call adds exactly 1 to the counter of every slot it asked that   *)
(* answered a token, once per slot, and changes no other counter: the      *)
(* slots after the one that ended the chain keep their counters, and a     *)
(* call that runs the whole chain counts every slot that answered a token. *)

\* the slots that answered a token in the last call
TokenSlots ==
  {j - 1 : j \in {x \in 1..Len(Evaluated) :
                    Evaluated[x].t = "string" /\ Evaluated[x].v # ""}}

C19_CountedOncePerSlot ==
  Called =>
    /\ {Adds[a].slot : a \in 1..Len(Adds)} = TokenSlots
    /\ Len(Adds) = Cardinality(TokenSlots)
    /\ \A a \in 1..Len(Adds) :
          /\ Adds[a].hash \in DOMAIN cache
          /\ cache[Adds[a].hash].value = CountBefore(Adds[a].hash) + 1
          /\ Adds[a].hash = CounterKey(Adds[a].slot, Evaluated[Adds[a].slot + 1].v)
    /\ \A k \in DOMAIN cache \cup DOMAIN last.before :
          Changed(k) => \E a \in 1..Len(Adds) : Adds[a].hash = k
    /\ \A i \in Slots : i >= Len(Evaluated) => Untouched(i)
    /\ (last.res.limited /\ last.res.hash # None)
         => Adds[Len(Adds)].slot = Len(Evaluated) - 1

\* limited by the count of the second of three slots, the first having
\* answered null; the third keeps the count it had
C19_Witness ==
  /\ Called /\ Len(plugins) = 3
  /\ Len(Evaluated) = 2 /\ Evaluated[1] = JNull
  /\ Len(Adds) = 1
  /\ LimitedBy(Adds[1].hash)
  /\ \E k \in KeysOfSlot(2) : k \in DOMAIN cache /\ cache[k].value = 1

----------------------------------------------------------------------------
(* The cookie limiter *)

\* the cookie c has both parts and its signature is the digest of the secret
\* followed by the identifier
ValidCookie(c) ==
  /\ c # <<>> /\ c # <<"">>
  /\ LET parts == Split(c)
     IN  /\ Len(parts) >= 2
         /\ parts[1] # "" /\ parts[2] # ""
         /\ parts[2] = hashFunction(Secret \o parts[1])

\* the identifier the cookie c embeds
Embedded(c) == Split(c)[1]

CookieOnly == Len(plugins) = 1 /\ HasLimiter("CookieRateLimiter")

(* C14: with the cookie limiter alone and preflight required, a call made  *)
(* without cookie is limited and counts nothing; a call of a client that   *)
(* holds the cookie preflight gave it is counted under the cookie's        *)
(* identifier, not limited up to the limit-th hit of the window and        *)
(* limited from the next.                                                  *)
C14_PreflightRequired ==
  (Called /\ CookieOnly /\ CookieOptions.preflight) =>
    /\ last.cookieBefore = <<>>
         => /\ last.res.limited /\ ~last.res.threw
            /\ Adds = <<>>
            /\ cookie = <<>>
    /\ preflighted
         => /\ ValidCookie(last.cookieBefore)
            /\ cookie = last.cookieBefore
            /\ Len(Adds) = 1
            /\ Adds[1].id = Embedded(last.cookieBefore)
            /\ last.res.limited <=> Len(hits[Adds[1].hash]) > SlotLimit(0)

\* after preflight, the call after the limit-th of the window
C14_Witness ==
  /\ Called /\ CookieOnly /\ CookieOptions.preflight
  /\ preflighted
  /\ SlotLimit(0) = MaxLimit
  /\ Len(hits[Adds[1].hash]) = SlotLimit(0) + 1
  /\ ~PrevHit(Adds[1].hash).limited
  /\ last.res.limited

(* C15: with preflight required, a call that carries an invalid cookie    *)
(* (malformed, or with a signature that does not match) is treated like a  *)
(* call without cookie: the cookie limiter answers false, nothing is       *)
(* counted and the call is limited.                                        *)
C15_InvalidLikeMissing ==
  (Called /\ CookieOnly /\ CookieOptions.preflight) =>
    ((last.cookieBefore # <<>> /\ ~ValidCookie(last.cookieBefore))
     => /\ Evaluated = <<JFalse>>
        /\ last.res.limited
        /\ Adds = <<>>)

(* C16: the cookie limiter answers (and the evaluator counts) the          *)
(* identifier a cookie embeds exactly when the cookie has both parts and   *)
(* its signature is the digest of secret + identifier; the counters of the *)
(* identifier of a cookie that fails this are left as they were.           *)

CookieSlots == {i \in Slots : plugins[i + 1].limiter.class = "CookieRateLimiter"}

C16_OnlySignedIdentifier ==
  (Called /\ HasLimiter("CookieRateLimiter")) =>
    /\ \A i \in CookieSlots :
         i < Len(Evaluated) =>
           /\ ValidCookie(last.cookieBefore)
                => Evaluated[i + 1] = Str(Embedded(last.cookieBefore))
           /\ Evaluated[i + 1] = Str(Embedded(last.cookieBefore))
                => ValidCookie(last.cookieBefore)
    /\ \A a \in 1..Len(Adds) :
         (Adds[a].slot \in CookieSlots
            /\ Adds[a].id = Embedded(last.cookieBefore))
         => ValidCookie(last.cookieBefore)
    /\ ~ValidCookie(last.cookieBefore) =>
         \A i \in CookieSlots :
            ~Changed(CounterKey(i, Embedded(last.cookieBefore)))

\* a cookie that embeds an identifier in use, with a signature that does
\* not match: the call is counted under a new identifier
C16_Witness ==
  /\ Called /\ CookieOnly
  /\ last.cookieBefore # <<>> /\ ~ValidCookie(last.cookieBefore)
  /\ CounterKey(0, Embedded(last.cookieBefore)) \in DOMAIN cache
  /\ Len(Adds) = 1
  /\ Adds[1].id # Embedded(last.cookieBefore)
  /\ cache[Adds[1].hash].value = 1

(* C17: preflight on a request that carries a valid cookie returns the    *)
(* identifier the cookie embeds, generates no identifier and leaves the    *)
(* cookie as it is; after any preflight the cookie is valid, so a second   *)
(* preflight returns the same identifier and leaves the same cookie.       *)

\* preflight called once more, on the cookie the client now holds
PreflightAgain == CookieUserId("preflight", cookie, [Env EXCEPT !.cookie = cookie])

C17_PreflightIdempotent ==
  (status = "ready" /\ last.op = "preflight") =>
    /\ ValidCookie(last.cookieBefore)
         => /\ last.id = Str(Embedded(last.cookieBefore))
            /\ cookie = last.cookieBefore
            /\ ids = last.idsBefore
    /\ ValidCookie(cookie)
    /\ last.id = Str(Embedded(cookie))
    /\ PreflightAgain.id = last.id
    /\ PreflightAgain.env.cookie = cookie
    /\ PreflightAgain.env.ids = ids
    /\ last.again => cookie = last.cookieBefore

\* preflight called twice in a row
C17_Witness ==
  /\ status = "ready" /\ last.op = "preflight"
  /\ last.again
  /\ ValidCookie(last.cookieBefore)
  /\ cookie = last.cookieBefore
  /\ last.id = Str(Embedded(cookie))

(* C18: with preflight not required, deleting the cookie changes no       *)
(* counter; the next call is counted, in the cookie slot, under an         *)
(* identifier generated for it, which had no counter and now counts 1,     *)
(* and in the other slots under the counters the client had, which go on   *)
(* from their values.                                                      *)
C18_DeletedCookieFreshIdentity ==
  /\ (status = "ready" /\ last.op = "setCookie") => cache = last.before
  /\ (Called /\ HasLimiter("CookieRateLimiter") /\ ~CookieOptions.preflight
        /\ last.cookieBefore = <<>>) =>
       /\ ValidCookie(cookie) /\ Embedded(cookie) = Nanoid(ids)
       /\ \A a \in 1..Len(Adds) :
            IF Adds[a].slot \in CookieSlots
              THEN /\ Adds[a].id = Nanoid(ids)
                   /\ \A i \in CookieSlots, n \in 1..(ids - 1) :
                         Adds[a].hash # CounterKey(i, Nanoid(n))
                   /\ CountBefore(Adds[a].hash) = 0
                   /\ cache[Adds[a].hash].value = 1
              ELSE /\ cache[Adds[a].hash].value = CountBefore(Adds[a].hash) + 1
                   /\ Adds[a].hash \in DOMAIN last.before
                        => cache[Adds[a].hash].expires
                             = last.before[Adds[a].hash].expires

\* the cookie deleted after a first call: a second identifier counts 1, the
\* first keeps its counter, the IP and IP + User-Agent counters reach 2
C18_Witness ==
  /\ Called /\ Len(plugins) = 3 /\ ~CookieOptions.preflight
  /\ last.cookieBefore = <<>>
  /\ ids = 2
  /\ Len(Adds) = 3
  /\ Adds[1].slot \in CookieSlots /\ cache[Adds[1].hash].value = 1
  /\ CounterKey(Adds[1].slot, Nanoid(1)) \in DOMAIN cache
  /\ plugins[Adds[2].slot + 1].limiter.class = "IPRateLimiter"
  /\ cache[Adds[2].hash].value = 2
  /\ plugins[Adds[3].slot + 1].limiter.class = "IPUserAgentRateLimiter"
  /\ cache[Adds[3].hash].value = 2
  /\ ~last.res.limited

----------------------------------------------------------------------------
(* C20: clear() of a RetryAfterRateLimiter leaves no counter and no        *)
(* retry-delay entry; from then on every call of check gives the verdict,  *)
(* the retryAfter and the reason that the same call gives on a limiter     *)
(* constructed at the time of clear() and given the same calls since.      *)
C20_ClearIsNew ==
  status = "ready" =>
    /\ last.op = "clear" => cache = EmptyCache /\ retryAfter = EmptyCache
    /\ fresh.on => fresh.cache = cache /\ fresh.retryAfter = retryAfter
    /\ (last.op = "check" /\ fresh.on) => last.out = last.freshOut

\* a call limited after clear(), at a time when a retry delay entered
\* before clear() would still be held
C20_Witness ==
  /\ status = "ready" /\ last.op = "check" /\ fresh.on
  /\ last.out.limited /\ last.res.hash # None
  /\ last.out.retryAfter = 1
  /\ last.res.hash[1] \in DOMAIN retryAfter
  /\ now > 0
  /\ retryAfter[last.res.hash[1]].value = now + SlotTTL(0)

----------------------------------------------------------------------------
(* The retry delays *)

Checked == status = "ready" /\ last.op = "check"

\* the last call of check was limited by the count of a key
LimitedByRate == Checked /\ last.out.limited /\ last.res.hash # None

\* the key that limited the last call and the hits of its window
LimitKey == last.res.hash[1]
LimitWindow == hits[LimitKey]

\* the earlier hits of the window that were rejected
RejectedBefore == {j \in 1..(Len(LimitWindow) - 1) : LimitWindow[j].limited}

(* C21: the first rejection of a key in a window reports the window's      *)
(* length in seconds (windows of whole seconds), and a later rejection of  *)
(* the key in the same window never reports more than an earlier one.      *)
C21_RetryAfterCountsDown ==
  LimitedByRate =>
    /\ (RejectedBefore = {} /\ last.res.ttl % 1000 = 0)
         => last.out.retryAfter = last.res.ttl \div 1000
    /\ \A j \in RejectedBefore :
          last.out.retryAfter <= LimitWindow[j].retryAfter

(* C22: when check reports a call limited by the count of a key (limit at *)
(* least 1, one slot) with retryAfter r, the key's counter is gone r       *)
(* seconds later, so that a call made then, none having been made          *)
(* meanwhile, is counted 1 and is not limited.                             *)
C22_RetryAfterSuffices ==
  (LimitedByRate /\ Len(plugins) = 1 /\ SlotLimit(0) >= 1) =>
    cache[LimitKey].expires <= now + 1000 * last.out.retryAfter

(* C23: when check reports a call limited without a counter key (a slot   *)
(* answered false, or every slot answered null), retryAfter is the window  *)
(* of the reporting slot in seconds, rounded up, and the retry-delay store *)
(* is left as it was.                                                      *)
C23_NoKeyCeiling ==
  (Checked /\ last.out.limited /\ last.res.hash = None) =>
    /\ last.out.retryAfter = (last.res.ttl + 999) \div 1000
    /\ retryAfter = last.retryBefore

----------------------------------------------------------------------------
(* The onLimited callback *)

\* the slot the last call ended at answered false
Rejected == Evaluated # <<>> /\ Evaluated[Len(Evaluated)] = JFalse

\* the last counter the last call incremented went over its limit
Exceeded ==
  /\ Adds # <<>>
  /\ cache[Adds[Len(Adds)].hash].value > SlotLimit(Adds[Len(Adds)].slot)

(* C24: a limiter with onLimited calls it once in each call whose slot     *)
(* answers false (reason "rejected") or whose count goes over the limit    *)
(* (reason "rate"), and in no other call; such a call is not limited when  *)
(* onLimited answers true and limited for every other answer.              *)
C24_OnLimitedOnce ==
  (Called /\ options.onLimited) =>
    /\ last.res.env.onLimited =
         IF Rejected THEN <<"rejected">>
         ELSE IF Exceeded THEN <<"rate">>
         ELSE <<>>
    /\ (Rejected \/ Exceeded) => (last.res.limited <=> last.status # JTrue)

\* a count over the limit at the second slot, onLimited answering undefined
C24_Witness ==
  /\ Called /\ options.onLimited
  /\ Len(Evaluated) = 2 /\ Exceeded
  /\ last.res.env.onLimited = <<"rate">>
  /\ last.status = JUndefined
  /\ last.res.limited

----------------------------------------------------------------------------
(* The reason check() reports *)

\* the slot the last call ended at
EndSlot == last.res.env.order[Len(last.res.env.order)]

\* what check() names the slot i
NameOf(i) ==
  CASE plugins[i + 1].limiter.class = "IPRateLimiter" -> "IP"
    [] plugins[i + 1].limiter.class = "IPUserAgentRateLimiter" -> "IPUA"
    [] plugins[i + 1].limiter.class = "CookieRateLimiter" -> "cookie"
    [] OTHER -> ToString(i)

(* C25: the reason of a limited check() names the slot that limited: the   *)
(* first slot, in the order of evaluation, that answered false or went     *)
(* over its limit, or the last slot when every slot answered null; the     *)
(* name is IP, IPUA or cookie for a built-in limiter and the index of the  *)
(* slot for a custom plugin. A call that is not limited has no reason.     *)
C25_ReasonNamesSlot ==
  (Called /\ ~last.res.threw) =>
    IF ~last.res.limited THEN RateLimiterCheck(last.res).reason = None
    ELSE /\ RateLimiterCheck(last.res).limited
         /\ RateLimiterCheck(last.res).reason = Some(NameOf(EndSlot))
         /\ \A j \in 1..(Len(Evaluated) - 1) : WentOn(j - 1)
         /\ \/ Rejected
            \/ Exceeded /\ Adds[Len(Adds)].slot = EndSlot
            \/ /\ EndSlot = Len(plugins) - 1
               /\ \A j \in 1..Len(Evaluated) : Evaluated[j] = JNull

\* a custom plugin, first in the options and second of the slots, over its
\* limit
C25_Witness ==
  /\ Called /\ last.res.limited
  /\ Len(options.plugins) = 2
  /\ plugins[2].limiter = CustomPlugin(options.plugins[1].rate, 1)
  /\ Exceeded /\ EndSlot = 1
  /\ RateLimiterCheck(last.res).reason = Some("1")

----------------------------------------------------------------------------
(* Concurrent calls *)

\* the calls that have incremented the counter k, and those of them that
\* store.add answered with a count within the limit of slot i
AddedTo(k) ==
  {p \in Procs : \E a \in 1..Len(calls[p].adds) : calls[p].adds[a].hash = k}

WithinLimit(k, i) ==
  {p \in Procs : \E a \in 1..Len(calls[p].adds) :
                    /\ calls[p].adds[a].hash = k
                    /\ calls[p].adds[a].currentRate <= SlotLimit(i)}

\* the counts store.add answered for the counter k
Answers(k) ==
  UNION {{calls[p].adds[a].currentRate :
            a \in {b \in 1..Len(calls[p].adds) : calls[p].adds[b].hash = k}} :
         p \in AddedTo(k)}

(* C26: however concurrent isLimited calls interleave at their awaits, a   *)
(* counter holds one hit for each call that has reached store.add for its  *)
(* key, each of these calls is answered a count of its own, and no more    *)
(* calls than the limit of the slot are let through by it: K calls of one  *)
(* identity leave a count of K and at most L of them are not limited.      *)
C26_NeverUnderCounts ==
  status = "ready" =>
    /\ \A p \in Procs : \A a \in 1..Len(calls[p].adds) :
          calls[p].adds[a].hash \in DOMAIN cache
    /\ \A k \in DOMAIN cache :
          /\ cache[k].value = Cardinality(AddedTo(k))
          /\ Answers(k) = 1..Cardinality(AddedTo(k))
          /\ \A i \in Slots :
                k \in KeysOfSlot(i) =>
                  /\ Cardinality(WithinLimit(k, i)) <= SlotLimit(i)
                  /\ \A p \in AddedTo(k) :
                        calls[p].result = "passed" => p \in WithinLimit(k, i)

\* every call made and ended, all for one identity and a limit of 1: the
\* count is the number of calls and the one call let through is the last
\* caller, whose hit came first
C26_Witness ==
  /\ status = "ready" /\ Len(plugins) = 1 /\ SlotLimit(0) = 1
  /\ \A p \in Procs : calls[p].pc = "done"
  /\ \E k \in DOMAIN cache :
        /\ AddedTo(k) = Procs
        /\ cache[k].value = MaxCalls
  /\ {p \in Procs : calls[p].result = "passed"} = {MaxCalls}

----------------------------------------------------------------------------
(* The calls of the cookie limiter *)

(* C27: a call of CookieRateLimiter.hash or CookieRateLimiter.preflight    *)
(* returns, whatever cookie the request carries (none, malformed, wrongly  *)
(* signed, valid) and whether preflight is required or not.                *)
C27_CookieCallsReturn == (frames # <<>>) ~> (frames = <<>>)

\* hash has returned an identifier for a cookie that is not valid, preflight
\* not being required
C27_Witness ==
  /\ status = "ready" /\ ~CookieOptions.preflight
  /\ frames = <<>>
  /\ last.op = "returned" /\ last.fn = "hash"
  /\ last.data = <<"junk">>
  /\ last.value.t = "string"
  /\ ValidCookie(cookie)

----------------------------------------------------------------------------
(* The stores *)

(* C28: TTLStore.add answers 1 for a key that is absent or has expired and *)
(* the live count plus 1 otherwise, and stores what it answers; the count  *)
(* stored for a live key is the number of add calls for the key since its  *)
(* entry was created, whatever calls and clear() came before.              *)
C28_AddCountsSinceCreation ==
  /\ Counted =>
       \A a \in 1..Len(Adds) :
          /\ Adds[a].currentRate = CountBefore(Adds[a].hash) + 1
          /\ Adds[a].hash \in DOMAIN cache
          /\ cache[Adds[a].hash].value = Adds[a].currentRate
          /\ Len(hits[Adds[a].hash]) = Adds[a].currentRate
  /\ status = "ready" =>
       \A k \in DOMAIN cache : cache[k].value = Len(hits[k])

\* a key counted before, its entry expired: add answers 1 again
C28_Witness ==
  /\ Counted
  /\ Adds[1].hash \in DOMAIN last.hitsBefore
  /\ Len(last.hitsBefore[Adds[1].hash]) = 2
  /\ Adds[1].hash \notin DOMAIN last.before
  /\ Adds[1].currentRate = 1
  /\ cache[Adds[1].hash].value = 1

(* C29: while the entry of a key is live RetryAfterStore.add answers the   *)
(* time the entry holds and leaves the entry, its value and its expiry, as *)
(* it is; for a key without entry, never added or expired, it stores and   *)
(* answers the present time plus ttl, to expire at that time.              *)
C29_RetryAfterAddIdempotent ==
  /\ (Checked /\ last.added # None) =>
       /\ last.res.hash # None
       /\ IF LimitKey \in DOMAIN last.retryBefore
            THEN /\ last.added = Some(last.retryBefore[LimitKey].value)
                 /\ retryAfter = last.retryBefore
            ELSE /\ last.added = Some(now + last.res.ttl)
                 /\ DOMAIN retryAfter = DOMAIN last.retryBefore \cup {LimitKey}
                 /\ retryAfter[LimitKey] =
                      [value |-> now + last.res.ttl,
                       expires |-> now + last.res.ttl]
                 /\ \A k \in DOMAIN last.retryBefore :
                       retryAfter[k] = last.retryBefore[k]
  /\ \A k \in DOMAIN retryAfter :
        retryAfter[k].value = retryAfter[k].expires /\ retryAfter[k].value > now

\* an add for an entry stored at an earlier time
C29_Witness ==
  /\ Checked /\ last.added # None
  /\ LimitKey \in DOMAIN last.retryBefore
  /\ last.added = Some(last.retryBefore[LimitKey].value)
  /\ last.added[1] < now + last.res.ttl
  /\ retryAfter = last.retryBefore

----------------------------------------------------------------------------
(* A plugin that answers true *)

\* the slot of the custom plugin
TrueSlot == CHOOSE i \in Slots : plugins[i + 1].limiter.class = "plugin"

(* C30: next to a plugin that answers true, a slot sorted before it counts *)
(* every call and limits the call whose count goes over its limit, the     *)
(* plugin not being asked then; a slot sorted after it is never reached.   *)
C30_TrueProtectsLaterSlots ==
  Called =>
    IF TrueSlot = 0
      THEN /\ Evaluated = <<JTrue>>
           /\ ~last.res.limited
           /\ cache = last.before
      ELSE /\ Len(Adds) = 1 /\ Adds[1].slot = 0
           /\ cache[Adds[1].hash].value = CountBefore(Adds[1].hash) + 1
           /\ last.res.limited <=> cache[Adds[1].hash].value > SlotLimit(0)
           /\ last.res.limited => Len(Evaluated) = 1
           /\ ~last.res.limited => (Len(Evaluated) = 2 /\ Evaluated[2] = JTrue)

\* a call limited by the IP limiter, after a call of the same client that
\* the plugin's true let through
C30_Witness ==
  /\ Called /\ TrueSlot = 1
  /\ last.res.limited
  /\ Len(Evaluated) = 1
  /\ Adds[1].hash \in DOMAIN last.hitsBefore
  /\ ~PrevHit(Adds[1].hash).limited

----------------------------------------------------------------------------
(* What a call leaves alone *)

(* C31: with preflight required, a call of isLimited leaves the client's   *)
(* cookie as the request carried it, whatever it is; only preflight writes *)
(* the cookie.                                                             *)
C31_EvaluationKeepsCookie ==
  (Called /\ HasLimiter("CookieRateLimiter") /\ CookieOptions.preflight) =>
    cookie = last.cookieBefore

----------------------------------------------------------------------------
(* One client among others *)

\* the counter keys of the client A
KeysOfA == {CounterKey(i, TokenAt(i, RequestOfA).v) : i \in Slots}

(* C33: the calls of other clients, whose tokens differ from those of the  *)
(* client A in every slot, change nothing for A: each call of A gets the   *)
(* verdict it gets from a limiter that is given the calls of A alone, at   *)
(* the same times, and the counters of A are the same in both limiters.    *)
C33_OthersDoNotInterfere ==
  status = "ready" =>
    /\ (Called /\ last.ofA) => last.alone = Some(last.res.limited)
    /\ \A k \in KeysOfA :
          /\ k \in DOMAIN cache <=> k \in DOMAIN fresh.cache
          /\ k \in DOMAIN cache => cache[k] = fresh.cache[k]
    /\ DOMAIN fresh.cache \subseteq KeysOfA

\* a call of A limited, as it is alone, while the counters of other clients
\* are counting
C33_Witness ==
  /\ Called /\ last.ofA
  /\ last.res.limited /\ last.alone = Some(TRUE)
  /\ \E k \in DOMAIN cache : k \notin KeysOfA /\ cache[k].value >= 2
  /\ \E k \in DOMAIN last.before : k \notin KeysOfA

----------------------------------------------------------------------------
(* The counter keys *)

(* C34: whatever digests the hashFunction of the user answers and however  *)
(* many slots there are, two counters that differ in the slot or in the    *)
(* digest have different keys.                                             *)
C34_KeysInjective ==
  last.op = "keys" => (last.a # last.b => last.keyA # last.keyB)

----------------------------------------------------------------------------
(* The seconds check() reports *)

(* C35: check() reports retryAfter 0 exactly for the calls it does not     *)
(* limit; a limited call is told to wait one second at least.              *)
C35_ZeroOnlyWhenAllowed ==
  (Checked /\ ~last.out.threw) =>
    (last.out.retryAfter = 0 <=> ~last.out.limited)

\* the times, from now on, at which an entry of the retry-delay store may be
\* read
ReadTimes == {now + n * TickMs : n \in 0..((MaxTime + 1000) \div TickMs)}

----------------------------------------------------------------------------
(* onLimited overrides *)

\* onLimited was called in the last call and answered true
Overrode == Called /\ last.res.env.onLimited # <<>> /\ last.status = JTrue

(* C37: a call that onLimited overrides ends at the slot that would have   *)
(* limited it: the call is not limited, the slots after it are not asked   *)
(* and their counters are left as they were, and the hit stays counted. A  *)
(* call that finds a counter at or over its limit is over the limit too    *)
(* and calls onLimited again.                                              *)
C37_OverrideKeepsCount ==
  /\ Overrode =>
       /\ ~last.res.limited /\ ~last.res.threw
       /\ Len(Evaluated) = EndSlot + 1
       /\ \A i \in Slots : i > EndSlot => Untouched(i)
       /\ Rejected \/ Exceeded
       /\ Rejected => Untouched(EndSlot)
       /\ Exceeded =>
            /\ Adds[Len(Adds)].slot = EndSlot
            /\ cache[Adds[Len(Adds)].hash].value
                 = CountBefore(Adds[Len(Adds)].hash) + 1
  /\ (Called /\ options.onLimited) =>
       \A a \in 1..Len(Adds) :
          CountBefore(Adds[a].hash) >= SlotLimit(Adds[a].slot)
          => /\ a = Len(Adds)
             /\ last.res.env.onLimited = <<"rate">>

\* a second override in a window, at the first of two slots: the counter is
\* two over the limit
C37_Witness ==
  /\ Overrode /\ Exceeded
  /\ Len(plugins) = 2 /\ EndSlot = 0
  /\ cache[Adds[1].hash].value = SlotLimit(0) + 2
  /\ CountBefore(Adds[1].hash) = SlotLimit(0) + 1

\* every slot answered null in the last call
AllNull ==
  /\ Len(Evaluated) = Len(plugins)
  /\ \A j \in 1..Len(Evaluated) : Evaluated[j] = JNull

(* C38: a limiter with onLimited does not call it for a call in which      *)
(* every slot answers null; the call is limited and stays so. onLimited is *)
(* called only at a slot that answered false or whose count went over the  *)
(* limit, the slot the call ends at.                                       *)
C38_AllNullNotOverridable ==
  (Called /\ options.onLimited) =>
    /\ AllNull => /\ last.res.env.onLimited = <<>>
                  /\ last.res.limited
                  /\ last.res.hash = None
                  /\ last.status = JUndefined
    /\ last.res.env.onLimited # <<>> =>
         /\ ~AllNull
         /\ Rejected \/ Exceeded
         /\ Len(Evaluated) = EndSlot + 1

\* nulls only from two slots of a limiter with onLimited, other calls having
\* been counted
C38_Witness ==
  /\ Called /\ options.onLimited /\ Len(plugins) = 2
  /\ AllNull
  /\ last.res.env.onLimited = <<>>
  /\ last.res.limited
  /\ cache # EmptyCache

====
